---- MODULE Spec2Model ----
(***************************************************************************)
(* A model of the slimproto player provider                                *)
(* (music_assistant/server/providers/slimproto/__init__.py): the session   *)
(* map, the sync graph kept in Player.synced_to / Player.group_childs, the *)
(* transport commands fanned out over a sync group, the buffer-ready       *)
(* coordinator, the drift controller, and the life cycle of the sessions   *)
(* up to the unload of the provider.                                       *)
(*                                                                         *)
(* A handler runs without interruption up to a point where it really       *)
(* suspends (asyncio.sleep).  A handler whose order of effects matters is  *)
(* split at its await and `running` holds its position; no other handler   *)
(* starts in between.                                                      *)
(***************************************************************************)
EXTENDS Integers, FiniteSets, Sequences, TLC

\* ------------------------------------------------------------------ bounds
NumPlayers == 3

Players == 1..NumPlayers
None == 0

\* --------------------------------------------------------------- constants
\* aioslimproto PlayerState, as used in STATE_MAP
SlimPlayerState == {"stopped", "playing", "paused", "buffering", "buffer_ready"}

STATE_MAP(s) ==
    CASE s = "buffering" -> "playing"
      [] s = "buffer_ready" -> "playing"
      [] s = "paused" -> "paused"
      [] s = "playing" -> "playing"
      [] s = "stopped" -> "idle"

ENABLE_EXPERIMENTAL_SYNC_JOIN == FALSE

DEFAULT_PLAYER_VOLUME == 20

\* ------------------------------------------------------------------- state
VARIABLES
    players,         \* ids in the player table (mass.players)
    socket_clients,  \* _socket_clients: player id -> session (0: no entry)
    cstate,          \* client.state of the player's latest session
    synced_to,       \* Player.synced_to (0: None)
    group_childs,    \* Player.group_childs
    running,         \* the handler that is between two of its steps
    br_pc,           \* _handle_buffer_ready task of a player: its position
    count,           \* _handle_buffer_ready: the local variable `count`
    wake,            \* _handle_buffer_ready: parity of the sleeps it has slept
    jiffies,         \* client.jiffies: the client's clock in its latest STAT
    open_sessions,   \* the sessions of a player id whose socket is open
    can_sync_with,   \* Player.can_sync_with
    now,             \* time.time(), in milliseconds
    sync_playpoints, \* _sync_playpoints: player id -> ring of SyncPlayPoint
    do_not_resync_before,  \* _do_not_resync_before, in 1/4 ms (0: no entry)
    backoff_recorded,  \* history: the latest backoff time recorded so far
    powered,         \* client.powered of the player's latest session
    volume_level,    \* client.volume_level of the player's latest session
    prev_state,      \* cache entry slimproto_prev_state.<player id> (<<>>: none)
    available,       \* Player.available
    closing,         \* mass.closing
    listening,       \* _socket_servers is open: sessions are accepted
    disconnected,    \* the sessions of a player id that disconnect() has closed
                     \* and whose DISCONNECTED event is not handled yet
    last             \* what the latest step did: command, error, frames sent

graphVars == <<synced_to, group_childs>>
sessVars == <<players, socket_clients>>
brVars == <<br_pc, count, wake>>
\* what no command writes
devVars == <<powered, volume_level, prev_state, available>>
\* the life cycle of the provider and of the sessions it has closed
lifeVars == <<closing, listening, disconnected>>
restVars == <<jiffies, open_sessions, can_sync_with, now, sync_playpoints,
              devVars, lifeVars>>
vars == <<players, socket_clients, cstate, synced_to, group_childs, running,
          br_pc, count, wake, jiffies, open_sessions, can_sync_with, now,
          sync_playpoints, do_not_resync_before, backoff_recorded, powered,
          volume_level, prev_state, available, closing, listening,
          disconnected, last>>

Idle == [op |-> "none", pid |-> None, parent |-> None, after_sync |-> FALSE]

\* the record of a step: the command and its arguments, whether it raised,
\* the sessions the command was fanned out to, the frames written (a set of
\* <<player id, strm subcommand>>) and a flag: for sync, whether
\* queues.resume was called; for unsync, whether it directly followed a
\* sync of the same child
Did(op, pid, arg, err, targets, frames, flag) ==
    [op |-> op, pid |-> pid, arg |-> arg, err |-> err,
     targets |-> targets, frames |-> frames, flag |-> flag]

\* Player.state, set from the client state on every client event
PlayerState(p) == STATE_MAP(cstate[p])

Init ==
    /\ players = {}
    /\ socket_clients = [p \in Players |-> None]
    /\ cstate = [p \in Players |-> "stopped"]
    /\ synced_to = [p \in Players |-> None]
    /\ group_childs = [p \in Players |-> {}]
    /\ running = Idle
    /\ br_pc = [p \in Players |-> "idle"]
    /\ count = [p \in Players |-> 0]
    /\ wake = [p \in Players |-> 0]
    /\ jiffies = [p \in Players |-> 0]
    /\ open_sessions = [p \in Players |-> {}]
    /\ can_sync_with = [p \in Players |-> {}]
    /\ now = 0
    /\ sync_playpoints = [p \in Players |-> <<>>]
    /\ do_not_resync_before = [p \in Players |-> 0]
    /\ backoff_recorded = [p \in Players |-> 0]
    /\ powered = [p \in Players |-> FALSE]
    /\ volume_level = [p \in Players |-> DEFAULT_PLAYER_VOLUME]
    /\ prev_state = [p \in Players |-> <<>>]
    /\ available = [p \in Players |-> FALSE]
    /\ closing = FALSE
    /\ listening = TRUE
    /\ disconnected = [p \in Players |-> {}]
    /\ last = Did("init", None, None, FALSE, {}, {}, FALSE)

Quiescent == running.op = "none"

\* ------------------------------------------------------------- fan-out
\* a fan-out that leaves out the addressed player itself
GetSyncClients_ChildsOnly(p) ==
    {child_id \in group_childs[p] : socket_clients[child_id] # None}

\* _get_sync_clients: the player itself and its group_childs, those that have
\* a session in the session map
GetSyncClients(p) ==
    LET group_child_ids == {p} \cup group_childs[p]
    IN  {child_id \in group_child_ids : socket_clients[child_id] # None}

\* a stop that reaches nobody
StopFrames_None(p) == {}

\* cmd_stop: the clients that are sent strm 'q'; each is then forced to
\* STOPPED by _process_stat_stmu
StopFrames(p) == {c \in GetSyncClients(p) : cstate[c] # "stopped"}

\* a stop without the forced STOPPED state
StateAfterStop_NoWorkaround(p) == cstate

StateAfterStop(p) ==
    [c \in Players |-> IF c \in StopFrames(p) THEN "stopped" ELSE cstate[c]]

\* --------------------------------------------------------------- sessions
\* _handle_player_update: can_sync_with is set to the ids of the session map
\* sc other than the player's own
CanSyncWith(sc, p) == {x \in Players : sc[x] # None /\ x # p}

\* a reconnect that leaves the incumbent's socket open
EvictIncumbent_Keep(os, p) == os

\* _handle_connected: existing.disconnect() closes the socket of the session
\* popped from the session map
EvictIncumbent(os, p) ==
    [os EXCEPT ![p] = @ \ {socket_clients[p]}]

\* _handle_connected: the power and the volume that the new session is set
\* to, from the cache entry of the player or the defaults
InitPower_Off(entry) == FALSE

InitPower(entry) == IF entry # <<>> THEN entry[1] ELSE FALSE

InitVolume(entry) == IF entry # <<>> THEN entry[2] ELSE DEFAULT_PLAYER_VOLUME

\* a disconnect that stores nothing
PrevState_Kept(p) == prev_state[p]

\* _handle_disconnected: cache.set(slimproto_prev_state.<id>,
\* (client.powered, client.volume_level))
PrevState(p) == <<powered[p], volume_level[p]>>

\* a disconnect that leaves the player available
Unavailable_Kept(av, p) == av

\* _handle_disconnected: player.available = False
Unavailable(av, p) == [av EXCEPT ![p] = FALSE]

\* _handle_connected: existing.disconnect() emits the DISCONNECTED event of
\* the session popped from the session map, and the callback of that session
\* creates the task that will handle it
EvictedEvent(d, p) ==
    IF socket_clients[p] # None
    THEN [d EXCEPT ![p] = @ \cup {socket_clients[p]}]
    ELSE d

\* _create_client and _handle_connected for a new session s of player id p
\* (sessions are created while the server listens and is not closing): an
\* incumbent session of the same id is popped and
\* disconnected, the new session is stored, the player is created or updated,
\* and every player of the session map is updated; the new session has not
\* yet had a STAT frame; then the session is set to the power and the volume
\* of the cache entry; the flag of the record tells that there was an
\* incumbent
Connect(p, s) ==
    /\ Quiescent
    /\ listening /\ ~closing
    /\ s # socket_clients[p]
    /\ s \notin open_sessions[p]
    /\ s \notin disconnected[p]
    /\ disconnected' = EvictedEvent(disconnected, p)
    /\ socket_clients' = [socket_clients EXCEPT ![p] = s]
    /\ open_sessions' = [EvictIncumbent(open_sessions, p) EXCEPT ![p] = @ \cup {s}]
    /\ players' = players \cup {p}
    /\ cstate' = [cstate EXCEPT ![p] = "stopped"]
    /\ can_sync_with' =
           [x \in Players |->
               IF socket_clients'[x] # None
               THEN CanSyncWith(socket_clients', x)
               ELSE can_sync_with[x]]
    /\ jiffies' = [jiffies EXCEPT ![p] = 0]
    /\ available' = [x \in Players |-> available[x] \/ socket_clients'[x] # None]
    /\ powered' = [powered EXCEPT ![p] = InitPower(prev_state[p])]
    /\ volume_level' = [volume_level EXCEPT ![p] = InitVolume(prev_state[p])]
    /\ last' = Did("connect", None, None, FALSE, {}, {}, socket_clients[p] # None)
    /\ UNCHANGED <<now, sync_playpoints, do_not_resync_before, backoff_recorded,
                   prev_state, closing, listening, graphVars, running, brVars>>

\* _handle_disconnected (the server is not closing): the session is popped
\* from the map and its power and volume are stored in the cache; the player
\* stays in the player table and is marked unavailable
Disconnect(p) ==
    /\ Quiescent
    /\ ~closing
    /\ socket_clients[p] # None
    /\ socket_clients' = [socket_clients EXCEPT ![p] = None]
    /\ open_sessions' = [open_sessions EXCEPT ![p] = @ \ {socket_clients[p]}]
    /\ prev_state' = [prev_state EXCEPT ![p] = PrevState(p)]
    /\ available' = Unavailable(available, p)
    /\ last' = Did("disconnect", None, None, FALSE, {}, {}, FALSE)
    /\ UNCHANGED <<now, sync_playpoints, do_not_resync_before, backoff_recorded,
                   jiffies, can_sync_with, powered, volume_level, players,
                   lifeVars, cstate, graphVars, running, brVars>>

\* the socket of the session that the map holds for p is closed by its client
\* while the server is closing: _handle_disconnected returns at once
DisconnectClosing(p) ==
    /\ Quiescent
    /\ closing
    /\ socket_clients[p] \in open_sessions[p]
    /\ open_sessions' = [open_sessions EXCEPT ![p] = @ \ {socket_clients[p]}]
    /\ last' = Did("disconnect_closing", p, None, FALSE, {}, {}, FALSE)
    /\ UNCHANGED <<now, sync_playpoints, do_not_resync_before, backoff_recorded,
                   jiffies, can_sync_with, devVars, lifeVars, sessVars,
                   cstate, graphVars, running, brVars>>

\* _handle_disconnected for the DISCONNECTED event of a session s of player id
\* p that disconnect() has closed: unless the server is closing, whatever
\* session the map holds under the id is popped and its power and volume are
\* stored in the cache, and the player is marked unavailable; the arg of the
\* record is the session of the event
DisconnectedLate(p, s) ==
    /\ Quiescent
    /\ s \in disconnected[p]
    /\ disconnected' = [disconnected EXCEPT ![p] = @ \ {s}]
    /\ IF closing
       THEN UNCHANGED <<socket_clients, prev_state, available>>
       ELSE /\ socket_clients' = [socket_clients EXCEPT ![p] = None]
            /\ prev_state' = IF socket_clients[p] # None
                             THEN [prev_state EXCEPT ![p] = PrevState(p)]
                             ELSE prev_state
            /\ available' = IF p \in players
                            THEN Unavailable(available, p)
                            ELSE available
    /\ last' = Did("disconnected", p, s, FALSE, {}, {}, closing)
    /\ UNCHANGED <<now, sync_playpoints, do_not_resync_before, backoff_recorded,
                   jiffies, open_sessions, can_sync_with, powered, volume_level,
                   players, closing, listening, cstate, graphVars, running,
                   brVars>>

\* the server starts to close: mass.closing is set
ServerCloses ==
    /\ Quiescent
    /\ ~closing
    /\ closing' = TRUE
    /\ last' = Did("closing", None, None, FALSE, {}, {}, FALSE)
    /\ UNCHANGED <<now, sync_playpoints, do_not_resync_before, backoff_recorded,
                   jiffies, open_sessions, can_sync_with, devVars, listening,
                   disconnected, sessVars, cstate, graphVars, running, brVars>>

\* an unload that leaves the session map as it is
UnloadSocketClients_Kept == socket_clients

\* unload: self._socket_clients = {}
UnloadSocketClients == [p \in Players |-> None]

\* unload: client.disconnect() for every session of the map, which closes its
\* socket and emits its DISCONNECTED event; the map is emptied and the socket
\* servers are closed; the targets of the record are the ids whose session
\* was disconnected
Unload ==
    /\ Quiescent
    /\ listening
    /\ open_sessions' =
           [p \in Players |-> open_sessions[p] \ {socket_clients[p]}]
    /\ disconnected' =
           [p \in Players |-> disconnected[p] \cup ({socket_clients[p]} \ {None})]
    /\ socket_clients' = UnloadSocketClients
    /\ listening' = FALSE
    /\ last' = Did("unload", None, None, FALSE,
                   {p \in Players : socket_clients[p] # None}, {}, FALSE)
    /\ UNCHANGED <<now, sync_playpoints, do_not_resync_before, backoff_recorded,
                   jiffies, can_sync_with, devVars, closing, players,
                   cstate, graphVars, running, brVars>>

\* a STAT frame of a connected client changes its state; the event is
\* forwarded to _handle_player_update
Stat(p, s) ==
    /\ Quiescent
    /\ socket_clients[p] # None
    /\ cstate[p] # s
    /\ cstate' = [cstate EXCEPT ![p] = s]
    /\ can_sync_with' = [can_sync_with EXCEPT ![p] = CanSyncWith(socket_clients, p)]
    /\ available' = [available EXCEPT ![p] = TRUE]
    /\ last' = Did("stat", None, None, FALSE, {}, {}, FALSE)
    /\ UNCHANGED <<now, sync_playpoints, do_not_resync_before, backoff_recorded,
                   jiffies, open_sessions, powered, volume_level, prev_state,
                   lifeVars, sessVars, graphVars, running, brVars>>

\* the volumes that a client is set to
Volumes == {DEFAULT_PLAYER_VOLUME, 50}

\* an event of a connected client whose power or volume was changed; it is
\* forwarded to _handle_player_update
StatVolume(p, pow, vol) ==
    /\ Quiescent
    /\ socket_clients[p] # None
    /\ <<pow, vol>> # <<powered[p], volume_level[p]>>
    /\ powered' = [powered EXCEPT ![p] = pow]
    /\ volume_level' = [volume_level EXCEPT ![p] = vol]
    /\ can_sync_with' = [can_sync_with EXCEPT ![p] = CanSyncWith(socket_clients, p)]
    /\ available' = [available EXCEPT ![p] = TRUE]
    /\ last' = Did("stat", None, None, FALSE, {}, {}, FALSE)
    /\ UNCHANGED <<now, sync_playpoints, do_not_resync_before, backoff_recorded,
                   jiffies, open_sessions, prev_state, lifeVars, sessVars,
                   cstate, graphVars, running, brVars>>

\* a heartbeat STAT frame of a connected client carries the client's clock
MaxJiffies == 1
Jiffies == 0..MaxJiffies

StatJiffies(p, j) ==
    /\ Quiescent
    /\ socket_clients[p] # None
    /\ jiffies[p] # j
    /\ jiffies' = [jiffies EXCEPT ![p] = j]
    /\ last' = Did("stat", None, None, FALSE, {}, {}, FALSE)
    /\ UNCHANGED <<now, sync_playpoints, do_not_resync_before, backoff_recorded,
                   open_sessions, can_sync_with, devVars, lifeVars, sessVars,
                   cstate, graphVars, running, brVars>>

\* ------------------------------------------------------------------- sync
\* cmd_sync: parent_player.group_childs.add(parent), .add(child)
SyncGroupChilds(gc, child, parent) ==
    [gc EXCEPT ![parent] = @ \cup {parent, child}]

\* cmd_sync: child_player.synced_to = parent_player.player_id
SyncSyncedTo(st, child, parent) ==
    [st EXCEPT ![child] = parent]

\* a sync that never restarts playback
SyncResumes_Never(parent) == FALSE

\* cmd_sync: queues.resume(active_queue, fade_in=False) is called when the
\* parent player is playing (the experimental join branch is switched off)
SyncResumes(parent) ==
    (~ENABLE_EXPERIMENTAL_SYNC_JOIN) /\ PlayerState(parent) = "playing"

\* cmd_sync(player_id, target_player)
CmdSync(child, parent) ==
    /\ Quiescent
    /\ IF child \notin players \/ parent \notin players
       THEN \* assert child_player / assert parent_player
            /\ last' = Did("sync", child, parent, TRUE, {}, {}, FALSE)
            /\ UNCHANGED <<graphVars>>
       ELSE /\ group_childs' = SyncGroupChilds(group_childs, child, parent)
            /\ synced_to' = SyncSyncedTo(synced_to, child, parent)
            /\ last' = Did("sync", child, parent, FALSE, {}, {},
                           SyncResumes(parent))
    /\ UNCHANGED <<restVars, do_not_resync_before, backoff_recorded,
                   sessVars, cstate, running, brVars>>

\* cmd_unsync(player_id), up to the end of `await self.cmd_stop(...)`;
\* the parent was looked up from child_player.synced_to before the stop
CmdUnsyncStop(child) ==
    /\ Quiescent
    /\ child \in players
    /\ running' = [op |-> "unsync", pid |-> child, parent |-> synced_to[child],
                   after_sync |-> last.op = "sync" /\ ~last.err /\ last.pid = child]
    /\ cstate' = StateAfterStop(child)
    /\ last' = Did("unsync_stop", child, synced_to[child], FALSE,
                   GetSyncClients(child), {<<c, "q">> : c \in StopFrames(child)},
                   FALSE)
    /\ UNCHANGED <<restVars, do_not_resync_before, backoff_recorded,
                   sessVars, graphVars, brVars>>

\* an unsync that leaves the child's synced_to in place
UnsyncSyncedTo_NotCleared(st, child) == st

\* cmd_unsync: child_player.synced_to = None
UnsyncSyncedTo(st, child) ==
    [st EXCEPT ![child] = None]

\* an unsync that never dissolves the parent's set
UnsyncGroupChilds_KeepsParent(gc, child, parent) ==
    [gc EXCEPT ![parent] = @ \ {child}]

\* cmd_unsync: the child is removed from the parent's group_childs and a set
\* left with the parent alone is emptied; a child that is not in the set
\* raises KeyError, which is suppressed and skips the emptying
UnsyncGroupChilds(gc, child, parent) ==
    LET removed == gc[parent] \ {child}
    IN  IF child \notin gc[parent]
        THEN gc
        ELSE [gc EXCEPT ![parent] = IF removed = {parent} THEN {} ELSE removed]

\* cmd_unsync, from `child_player.synced_to = None` on
CmdUnsyncFinish ==
    /\ running.op = "unsync"
    /\ LET child == running.pid
           parent == running.parent
       IN  /\ synced_to' = UnsyncSyncedTo(synced_to, child)
           /\ IF parent = None
              THEN \* players.get(None) is None: parent_player.group_childs raises
                   /\ group_childs' = group_childs
                   /\ last' = Did("unsync", child, parent, TRUE, {}, {},
                                  running.after_sync)
              ELSE /\ group_childs' = UnsyncGroupChilds(group_childs, child, parent)
                   /\ last' = Did("unsync", child, parent, FALSE, {}, {},
                                  running.after_sync)
    /\ running' = Idle
    /\ UNCHANGED <<restVars, do_not_resync_before, backoff_recorded,
                   sessVars, cstate, brVars>>

\* ------------------------------------------------------- transport commands
\* cmd_stop(player_id); the flag of the record tells that the command
\* directly follows a stop of the same player that sent a frame
CmdStop(p) ==
    /\ Quiescent
    /\ p \in players
    /\ cstate' = StateAfterStop(p)
    /\ last' = Did("stop", p, None, FALSE, GetSyncClients(p),
                   {<<c, "q">> : c \in StopFrames(p)},
                   last.op = "stop" /\ last.pid = p /\ last.frames # {})
    /\ UNCHANGED <<restVars, do_not_resync_before, backoff_recorded,
                   sessVars, graphVars, running,
                   brVars>>

\* a play that is sent to every sync client
PlayFrames_All(p) == GetSyncClients(p)

\* cmd_play(player_id): client.play() writes strm 'u'
PlayFrames(p) ==
    {c \in GetSyncClients(p) : cstate[c] \in {"paused", "buffering", "buffer_ready"}}

CmdPlay(p) ==
    /\ Quiescent
    /\ p \in players
    /\ last' = Did("play", p, None, FALSE, GetSyncClients(p),
                   {<<c, "u">> : c \in PlayFrames(p)}, FALSE)
    /\ UNCHANGED <<restVars, do_not_resync_before, backoff_recorded,
                   sessVars, cstate, graphVars,
                   running, brVars>>

\* cmd_pause(player_id): client.pause() writes strm 'p'
PauseFrames(p) ==
    {c \in GetSyncClients(p) : cstate[c] \in {"playing", "buffering", "buffer_ready"}}

CmdPause(p) ==
    /\ Quiescent
    /\ p \in players
    /\ last' = Did("pause", p, None, FALSE, GetSyncClients(p),
                   {<<c, "p">> : c \in PauseFrames(p)}, FALSE)
    /\ UNCHANGED <<restVars, do_not_resync_before, backoff_recorded,
                   sessVars, cstate, graphVars,
                   running, brVars>>

\* cmd_play_url / cmd_handle_stream_job, up to the end of
\* `await self.cmd_stop(player_id)`; op is "play_url" or "stream_job"
CmdPlayUrlStop(op, p) ==
    /\ Quiescent
    /\ p \in players
    /\ running' = [op |-> op, pid |-> p, parent |-> None, after_sync |-> FALSE]
    /\ cstate' = StateAfterStop(p)
    /\ last' = Did("stop", p, op, FALSE, GetSyncClients(p),
                   {<<c, "q">> : c \in StopFrames(p)}, FALSE)
    /\ UNCHANGED <<restVars, do_not_resync_before, backoff_recorded,
                   sessVars, graphVars, brVars>>

\* a play_url without the synced-player guard
SyncedPlayerGuard_Off(p) == FALSE

\* the guard of cmd_play_url / cmd_handle_stream_job
SyncedPlayerGuard(p) == synced_to[p] # None

\* a start that always renders at once
AutoPlay_Always(p) == TRUE

\* cmd_play_url / cmd_handle_stream_job: auto_play=len(sync_clients) == 1
AutoPlay(p) == Cardinality(GetSyncClients(p)) = 1

\* cmd_play_url / cmd_handle_stream_job, from `player = self.mass.players.get`
\* on: a synced player raises, otherwise client.play_url writes strm 's' to
\* every sync client, with autostart = auto_play (the flag of the record);
\* the arg of the record is the set of sync clients whose send failed
CmdPlayUrlStart ==
    /\ running.op \in {"play_url", "stream_job"}
    /\ LET p == running.pid
       IN  IF SyncedPlayerGuard(p)
           THEN last' = Did(running.op, p, {}, TRUE, {}, {}, FALSE)
           ELSE last' = Did(running.op, p, {}, FALSE, GetSyncClients(p),
                            {<<c, "s">> : c \in GetSyncClients(p)}, AutoPlay(p))
    /\ running' = Idle
    /\ UNCHANGED <<restVars, do_not_resync_before, backoff_recorded,
                   sessVars, cstate, graphVars,
                   brVars>>

\* cmd_play_url / cmd_handle_stream_job, from `player = self.mass.players.get`
\* on, when client.play_url raises for the sync clients in `bad`: the
\* TaskGroup cancels the tasks that have not finished, so of the other sync
\* clients any subset has been written its strm 's', and the command raises
\* once all tasks are done or cancelled
CmdPlayUrlStartFails ==
    /\ running.op \in {"play_url", "stream_job"}
    /\ ~SyncedPlayerGuard(running.pid)
    /\ LET p == running.pid
       IN  \E bad \in SUBSET GetSyncClients(p) \ {{}} :
           \E done \in SUBSET (GetSyncClients(p) \ bad) :
               last' = Did(running.op, p, bad, TRUE, GetSyncClients(p),
                           {<<c, "s">> : c \in done}, AutoPlay(p))
    /\ running' = Idle
    /\ UNCHANGED <<restVars, do_not_resync_before, backoff_recorded,
                   sessVars, cstate, graphVars,
                   brVars>>

\* ------------------------------------------------- buffer-ready coordinator
\* readiness events that are never left to a sync master
LeftToMaster_Never(p) == FALSE

\* _handle_buffer_ready and _handle_decoder_ready: `if player.synced_to:
\* return`, the event of a sync child is left to its sync master
LeftToMaster(p) == synced_to[p] # None

MAX_POLLS == 40

\* a STAT STMl of a connected client: it is BUFFER_READY and the callback
\* creates the _handle_buffer_ready task
BufferReadyEvent(p) ==
    /\ Quiescent
    /\ socket_clients[p] # None
    /\ br_pc[p] = "idle"
    /\ cstate' = [cstate EXCEPT ![p] = "buffer_ready"]
    /\ br_pc' = [br_pc EXCEPT ![p] = "start"]
    /\ last' = Did("stat", None, None, FALSE, {}, {}, FALSE)
    /\ UNCHANGED <<restVars, do_not_resync_before, backoff_recorded,
                   sessVars, graphVars, running,
                   count, wake>>

\* _handle_buffer_ready: childs_total == childs_ready
AllReady(p) == \A c \in GetSyncClients(p) : cstate[c] = "buffer_ready"

\* _handle_buffer_ready: what the body of the `while count < 40` loop does to
\* `count`
CountAfterPoll(c) == c

\* an unpause at the client's clock itself
UnpauseAt_Now(j) == j

\* _handle_buffer_ready: timestamp = client.jiffies + 20
UnpauseAt(j) == j + 20

\* _do_not_resync_before holds times in units of 1/MIN_REQ_PLAYPOINTS ms, in
\* which the mean of a full ring of millisecond diffs is a whole number
MIN_REQ_PLAYPOINTS == 4

Millis(ms) == MIN_REQ_PLAYPOINTS * ms

\* the latest backoff time recorded for each player, once the backoffs b are
\* recorded
Latest(b) ==
    [x \in Players |->
        IF b[x] > backoff_recorded[x] THEN b[x] ELSE backoff_recorded[x]]

\* _handle_buffer_ready: _do_not_resync_before[client.player_id] =
\* time.time() + 1, for every sync client
UnpauseBackoff(p) ==
    [x \in Players |->
        IF x \in GetSyncClients(p)
        THEN Millis(now + 1000)
        ELSE do_not_resync_before[x]]

\* _handle_buffer_ready from the test of the while loop on, with `count` at
\* c: it sleeps 0.1 s when the loop goes on and some sync client is not
\* ready, and otherwise writes strm 'u' with replay_gain = timestamp to every
\* sync client
BufferReadyLoop(p, c) ==
    IF c < MAX_POLLS /\ ~AllReady(p)
    THEN /\ br_pc' = [br_pc EXCEPT ![p] = "polling"]
         /\ count' = [count EXCEPT ![p] = CountAfterPoll(c)]
         /\ wake' = [wake EXCEPT ![p] = 1 - @]
         /\ last' = Did("buffer_ready_sleep", p, None, FALSE, {}, {}, FALSE)
         /\ UNCHANGED <<do_not_resync_before, backoff_recorded>>
    ELSE /\ br_pc' = [br_pc EXCEPT ![p] = "idle"]
         /\ count' = [count EXCEPT ![p] = 0]
         /\ wake' = [wake EXCEPT ![p] = 0]
         /\ do_not_resync_before' = UnpauseBackoff(p)
         /\ backoff_recorded' = Latest(UnpauseBackoff(p))
         /\ last' = Did("buffer_ready_unpause", p, None, FALSE, GetSyncClients(p),
                        {<<x, "u", UnpauseAt(jiffies[x])>> : x \in GetSyncClients(p)},
                        FALSE)

\* a lone player that is sent nothing on BUFFER_READY
LonePlayFrames_None(p) == {}

\* _handle_buffer_ready, not a sync group: client.play() writes strm 'u'
LonePlayFrames(p) == {<<p, "u">>}

\* _handle_buffer_ready up to its first sleep
BufferReadyStart(p) ==
    /\ Quiescent
    /\ br_pc[p] = "start"
    /\ IF LeftToMaster(p)
       THEN \* unpause of sync child is handled by sync master
            /\ br_pc' = [br_pc EXCEPT ![p] = "idle"]
            /\ last' = Did("buffer_ready", p, None, FALSE, {}, {}, FALSE)
            /\ UNCHANGED <<count, wake, do_not_resync_before, backoff_recorded>>
       ELSE IF group_childs[p] = {}
       THEN \* not a sync group: client.play()
            /\ br_pc' = [br_pc EXCEPT ![p] = "idle"]
            /\ last' = Did("buffer_ready", p, None, FALSE, {p}, LonePlayFrames(p),
                           FALSE)
            /\ UNCHANGED <<count, wake, do_not_resync_before, backoff_recorded>>
       ELSE BufferReadyLoop(p, 0)
    /\ UNCHANGED <<restVars, sessVars, cstate, graphVars, running>>

\* _handle_buffer_ready woken from asyncio.sleep(0.1)
BufferReadyPoll(p) ==
    /\ Quiescent
    /\ br_pc[p] = "polling"
    /\ BufferReadyLoop(p, count[p])
    /\ UNCHANGED <<restVars, sessVars, cstate, graphVars, running>>

\* ----------------------------------------------------------- output underrun
\* an underrun that always stops
UnderrunResyncs_Never(p) == FALSE

\* _handle_output_underrun: `if player.synced_to`
UnderrunResyncs(p) == synced_to[p] # None

\* _handle_output_underrun for an "output_underrun" event of client p:
\* cmd_sync(player_id, player.synced_to) for a synced player and
\* cmd_stop(player_id) otherwise. The arg of the record is the command called
\* and the target of the sync, and the flag tells that queues.resume was
\* called.
OutputUnderrun(p) ==
    /\ Quiescent
    /\ socket_clients[p] # None
    /\ IF UnderrunResyncs(p)
       THEN LET parent == synced_to[p]
            IN  /\ group_childs' = SyncGroupChilds(group_childs, p, parent)
                /\ synced_to' = SyncSyncedTo(synced_to, p, parent)
                /\ last' = Did("underrun", p,
                               [called |-> "sync", parent |-> parent],
                               FALSE, {}, {}, SyncResumes(parent))
                /\ UNCHANGED cstate
       ELSE /\ cstate' = StateAfterStop(p)
            /\ last' = Did("underrun", p,
                           [called |-> "stop", parent |-> None],
                           FALSE, GetSyncClients(p),
                           {<<c, "q">> : c \in StopFrames(p)}, FALSE)
            /\ UNCHANGED graphVars
    /\ UNCHANGED <<restVars, do_not_resync_before, backoff_recorded,
                   sessVars,
                   running, brVars>>

\* ------------------------------------------------------------ decoder ready
\* a handoff that reaches the player of the event only
HandoffFrames_OwnOnly(p) == {<<p, "s", FALSE, TRUE>>}

\* _handle_decoder_ready: _handle_play_url(client, send_flush=False,
\* auto_play=True) for every sync client; a frame is <<player id, "s",
\* flush, autostart>>
HandoffFrames(p) == {<<c, "s", FALSE, TRUE>> : c \in GetSyncClients(p)}

\* _handle_decoder_ready for a PLAYER_DECODER_READY event of client p, whose
\* session has current_metadata or not (meta), whose player has itself as
\* active_source or not (own), and whose queue has a next item or raises
\* QueueEmpty (empty). The arg of the record is what the handler got to with
\* these inputs and the flag tells that preload_next_url was called.
DecoderReady(p, meta, own, empty) ==
    /\ Quiescent
    /\ socket_clients[p] # None
    /\ LET Got(outcome, targets, frames, asked) ==
               Did("decoder_ready", p,
                   [outcome |-> outcome, meta |-> meta, own |-> own,
                    empty |-> empty],
                   FALSE, targets, frames, asked)
       IN  last' =
               IF ~meta THEN Got("no_metadata", {}, {}, FALSE)
               ELSE IF LeftToMaster(p) THEN Got("synced", {}, {}, FALSE)
               ELSE IF cstate[p] = "stopped" THEN Got("stopped", {}, {}, FALSE)
               ELSE IF ~own THEN Got("other_source", {}, {}, FALSE)
               ELSE IF empty THEN Got("queue_empty", {}, {}, TRUE)
               ELSE Got("next", GetSyncClients(p), HandoffFrames(p), TRUE)
    /\ UNCHANGED <<restVars, do_not_resync_before, backoff_recorded,
                   sessVars,
                   cstate, graphVars, running, brVars>>

\* --------------------------------------------------------- drift controller
MIN_DEVIATION_ADJUST == 10

\* time passes
MaxNow == 12000
Elapses == {1000}

Tick(dt) ==
    /\ Quiescent
    /\ now + dt <= MaxNow
    /\ now' = now + dt
    /\ last' = Did("tick", None, None, FALSE, {}, {}, FALSE)
    /\ UNCHANGED <<jiffies, open_sessions, can_sync_with, sync_playpoints,
                   do_not_resync_before, backoff_recorded, devVars, lifeVars,
                   sessVars, cstate, graphVars, running, brVars>>

\* SyncPlayPoint(timestamp, sync_job_id, diff)
SyncPlayPoint(t, job, d) == [timestamp |-> t, sync_job_id |-> job, diff |-> d]

\* a ring that is never invalidated
Invalidate_Never(ring, job) == ring

\* a ring that is invalidated by age only
Invalidate_AgeOnly(ring, job) ==
    IF ring # <<>> /\ now - ring[Len(ring)].timestamp > 10000
    THEN <<>>
    ELSE ring

\* _handle_client_sync: the ring is cleared when its last playpoint is older
\* than 10 s or belongs to another stream job
Invalidate(ring, job) ==
    IF /\ ring # <<>>
       /\ \/ now - ring[Len(ring)].timestamp > 10000
          \/ ring[Len(ring)].sync_job_id # job
    THEN <<>>
    ELSE ring

\* deque(maxlen=MIN_REQ_PLAYPOINTS).append
AppendPlayPoint(ring, pp) ==
    IF Len(ring) >= MIN_REQ_PLAYPOINTS
    THEN Append(Tail(ring), pp)
    ELSE Append(ring, pp)

RECURSIVE SumDiffs(_)
SumDiffs(ring) ==
    IF ring = <<>> THEN 0 ELSE Head(ring).diff + SumDiffs(Tail(ring))

Abs(x) == IF x < 0 THEN -x ELSE x

\* a ring that is never long enough
RingIsShort_Always(ring) == TRUE

\* _handle_client_sync: len(sync_playpoints) < MIN_REQ_PLAYPOINTS
RingIsShort(ring) == Len(ring) < MIN_REQ_PLAYPOINTS

\* a deadband that includes its edge
InDeadband_Inclusive(ring) ==
    Abs(SumDiffs(ring)) <= MIN_DEVIATION_ADJUST * Len(ring)

\* _handle_client_sync: delta < MIN_DEVIATION_ADJUST, with
\* delta = abs(fmean(diffs))
InDeadband(ring) == Abs(SumDiffs(ring)) < MIN_DEVIATION_ADJUST * Len(ring)

\* _skip_over / _pause_for: replay_gain=int(millis)
ReplayGain(ring) == Abs(SumDiffs(ring)) \div Len(ring)

\* the stream jobs of the active queue (0: none) and the elapsed milliseconds
\* that the leader's and the follower's client report
JobIds == {1, 2}
MasterElapsed == {1000}
ClientElapsed == {970, 991}

\* _handle_client_sync: a backoff time is recorded for the client and
\* time.time() < backoff_time
InBackoff(p) ==
    do_not_resync_before[p] # 0 /\ Millis(now) < do_not_resync_before[p]

\* a controller that does not look at the transport states
BothPlaying_Unchecked(m, p) == TRUE

\* _handle_client_sync: sync_master.state and client.state are PLAYING
BothPlaying(m, p) == cstate[m] = "playing" /\ cstate[p] = "playing"

\* a skip ahead that records no time to wait
SkipBackoff_Now(t) == Millis(t)

\* _handle_client_sync, skip ahead: time.time() + 2
SkipBackoff(t) == Millis(t + 2000)

\* a pause that waits as long as a skip ahead
PauseBackoff_Flat(t, ring) == Millis(t + 2000)

\* _handle_client_sync, pause for: time.time() + (delta / 1000) + 2, with
\* delta = abs(fmean(diffs)) of a ring of MIN_REQ_PLAYPOINTS playpoints
PauseBackoff(t, ring) == Millis(t + 2000) + Abs(SumDiffs(ring))

\* a controller that takes a player without leader for its own sync master
SyncMaster_OrSelf(p) == IF synced_to[p] # None THEN synced_to[p] ELSE p

\* _handle_player_heartbeat: `if player.synced_to`, and _handle_client_sync:
\* sync_master_id = player.synced_to
SyncMaster(p) == synced_to[p]

\* _handle_player_heartbeat and _handle_client_sync for a heartbeat of client
\* p, with the stream job of the active queue and the corrected elapsed
\* milliseconds of the sync master (me) and of the client (ce): what the
\* handler got to, the ring it evaluated (<<>> when it returned before), the
\* number of playpoints that the invalidation dropped, the ring and the
\* backoff of p afterwards, and the frame written
HeartbeatResult(p, job, me, ce) ==
    LET m == SyncMaster(p)
        ring0 == sync_playpoints[p]
        backoff0 == do_not_resync_before[p]
        ring == AppendPlayPoint(Invalidate(ring0, job),
                                SyncPlayPoint(now, job, me - ce))
        Result(outcome, r, b, f) ==
            [outcome |-> outcome, ring |-> r, backoff |-> b, frames |-> f,
             evaluated |-> IF outcome \in {"deadband", "skip", "pause"}
                           THEN ring ELSE <<>>,
             dropped |-> IF outcome \in {"short", "deadband", "skip", "pause"}
                         THEN Len(ring0) - Len(Invalidate(ring0, job)) ELSE 0]
    IN  IF cstate[p] = "stopped"
        THEN Result("stopped", ring0, backoff0, {})
        ELSE IF m = None
        THEN Result("not_synced", ring0, backoff0, {})
        ELSE IF socket_clients[m] = None
        THEN Result("no_master", ring0, backoff0, {})
        ELSE IF ~BothPlaying(m, p)
        THEN Result("not_playing", ring0, backoff0, {})
        ELSE IF InBackoff(p)
        THEN Result("backoff", ring0, backoff0, {})
        ELSE IF job = None
        THEN Result("no_job", ring0, backoff0, {})
        ELSE IF RingIsShort(ring)
        THEN Result("short", ring, backoff0, {})
        ELSE IF InDeadband(ring)
        THEN Result("deadband", ring, backoff0, {})
        ELSE IF SumDiffs(ring) > 0
        THEN Result("skip", <<>>, SkipBackoff(now),
                    {<<p, "a", ReplayGain(ring)>>})
        ELSE Result("pause", <<>>, PauseBackoff(now, ring),
                    {<<p, "p", ReplayGain(ring)>>})

\* what a client reports and what is kept for it: client.elapsed_milliseconds,
\* the client_seconds_skipped of the stream job for the player (0: no entry)
\* and the sync_adjust of the player's configuration (0: not set)
Reading(elapsed, skipped, sync_delay) ==
    [elapsed |-> elapsed, skipped |-> skipped, sync_delay |-> sync_delay]

\* corrected elapsed milliseconds without the configured delay
GetCorrectedElapsedMilliseconds_NoDelay(job, r) ==
    (IF job # None THEN r.skipped * 1000 ELSE 0) + r.elapsed

\* _get_corrected_elapsed_milliseconds
GetCorrectedElapsedMilliseconds(job, r) ==
    LET skipped_millis == IF job # None THEN r.skipped * 1000 ELSE 0
        sync_delay == r.sync_delay
        current_millis == skipped_millis + r.elapsed
    IN  IF sync_delay # 0 THEN current_millis - sync_delay ELSE current_millis

\* a PLAYER_HEARTBEAT event of a connected client p, with the stream job of
\* the active queue and the readings m of the sync master and c of the
\* client; the arg of the record is what the handler got to, the ring whose
\* mean it evaluated, the stream job of the queue, the number of playpoints
\* dropped as invalid and the two readings, and the flag tells that the mean
\* was evaluated
PlayerHeartbeatOf(p, job, m, c) ==
    /\ Quiescent
    /\ socket_clients[p] # None
    /\ LET res == HeartbeatResult(p, job,
                                  GetCorrectedElapsedMilliseconds(job, m),
                                  GetCorrectedElapsedMilliseconds(job, c))
       IN  /\ sync_playpoints' = [sync_playpoints EXCEPT ![p] = res.ring]
           /\ do_not_resync_before' = [do_not_resync_before EXCEPT ![p] = res.backoff]
           /\ backoff_recorded' = Latest(do_not_resync_before')
           /\ last' = Did("heartbeat", p,
                          [outcome |-> res.outcome, evaluated |-> res.evaluated,
                           job |-> job, dropped |-> res.dropped,
                           master |-> m, client |-> c],
                          FALSE, {}, res.frames,
                          res.outcome \in {"deadband", "skip", "pause"})
    /\ UNCHANGED <<jiffies, open_sessions, can_sync_with, now, devVars,
                   lifeVars, sessVars, cstate, graphVars, running, brVars>>

\* such an event for clients without skipped seconds and without a
\* configured delay: the corrected elapsed milliseconds are me and ce
PlayerHeartbeat(p, job, me, ce) ==
    PlayerHeartbeatOf(p, job, Reading(me, 0, 0), Reading(ce, 0, 0))

\* ------------------------------------------------------------------- specs
\* The sync graph under every sync and unsync command of NumPlayers players
Next ==
    \/ \E p \in Players : Connect(p, 1)
    \/ \E c \in Players, l \in Players : CmdSync(c, l)
    \/ \E c \in Players : CmdUnsyncStop(c)
    \/ CmdUnsyncFinish

Spec == Init /\ [][Next]_vars

\* The transport commands on groups whose leader is one of the first
\* NumLeaders players, with clients that start and stop playing and
\* leaders whose connection is lost
NumLeaders == 1

CmdNext ==
    \/ \E p \in Players : Connect(p, 1)
    \/ \E p \in 1..NumLeaders : Disconnect(p)
    \/ \E p \in Players, s \in {"stopped", "playing"} : Stat(p, s)
    \/ \E c \in Players, l \in 1..NumLeaders : CmdSync(c, l)
    \/ \E c \in Players : CmdUnsyncStop(c)
    \/ CmdUnsyncFinish
    \/ \E p \in Players : CmdStop(p)
    \/ \E p \in Players : CmdPlay(p)
    \/ \E p \in Players : CmdPause(p)
    \/ \E p \in Players, op \in {"play_url", "stream_job"} : CmdPlayUrlStop(op, p)
    \/ CmdPlayUrlStart

CmdSpec == Init /\ [][CmdNext]_vars

\* Sessions that come and go, a player id reconnecting while its earlier
\* session is still in the session map
MaxSessions == 2
Sessions == 1..MaxSessions

SessNext ==
    \/ \E p \in Players, s \in Sessions : Connect(p, s)
    \/ \E p \in Players : Disconnect(p)
    \/ \E p \in Players, s \in {"stopped", "playing"} : Stat(p, s)

SessSpec == Init /\ [][SessNext]_vars

\* One group of NumMembers players, led by player 1
NumMembers == 2
Members == 1..NumMembers

\* The drift controller on that group: heartbeats of both clients while the
\* stream job changes and time passes
DriftHorizon == 3000

DriftNext ==
    \/ \E p \in Members : Connect(p, 1)
    \/ \E p \in Members, s \in {"stopped", "playing"} : Stat(p, s)
    \/ \E c \in Members \ {1} : CmdSync(c, 1)
    \/ \E dt \in Elapses : now + dt <= DriftHorizon /\ Tick(dt)
    \/ \E p \in Members, job \in JobIds \cup {None}, me \in MasterElapsed,
          ce \in ClientElapsed : PlayerHeartbeat(p, job, me, ce)

DriftSpec == Init /\ [][DriftNext]_vars

\* The deadband of the drift controller: heartbeats of follower 2 whose diffs
\* are at both edges of the band, on both sides
EdgeElapsed == {990, 991, 1009, 1010}

DeadbandNext ==
    \/ \E p \in Members : Connect(p, 1)
    \/ \E p \in Members : Stat(p, "playing")
    \/ CmdSync(2, 1)
    \/ \E me \in MasterElapsed, ce \in EdgeElapsed : PlayerHeartbeat(2, 1, me, ce)

DeadbandSpec == Init /\ [][DeadbandNext]_vars

\* The corrections of the drift controller, with a follower 30 ms behind or
\* 40 ms ahead
FarElapsed == {970, 1040}
CorrectionHorizon == 1000

CorrectionNext ==
    \/ \E p \in Members : Connect(p, 1)
    \/ \E p \in Members : Stat(p, "playing")
    \/ CmdSync(2, 1)
    \/ \E dt \in Elapses : now + dt <= CorrectionHorizon /\ Tick(dt)
    \/ \E me \in MasterElapsed, ce \in FarElapsed : PlayerHeartbeat(2, 1, me, ce)

CorrectionSpec == Init /\ [][CorrectionNext]_vars

\* The corrections of the drift controller and the coordinated unpause of
\* the leader, with that follower, while time passes
BackoffHorizon == 2000

BackoffNext ==
    \/ \E p \in Members : Connect(p, 1)
    \/ \E p \in Members, s \in {"buffer_ready", "playing"} : Stat(p, s)
    \/ CmdSync(2, 1)
    \/ \E dt \in Elapses : now + dt <= BackoffHorizon /\ Tick(dt)
    \/ BufferReadyEvent(1)
    \/ BufferReadyStart(1)
    \/ BufferReadyPoll(1)
    \/ \E me \in MasterElapsed, ce \in FarElapsed : PlayerHeartbeat(2, 1, me, ce)

BackoffSpec == Init /\ [][BackoffNext]_vars

\* Heartbeats of follower 2 that are up to 12 s apart, while the stream job
\* of the queue changes
LongElapses == {5000, 6000}

StaleNext ==
    \/ \E p \in Members : Connect(p, 1)
    \/ \E p \in Members : Stat(p, "playing")
    \/ CmdSync(2, 1)
    \/ \E dt \in LongElapses : Tick(dt)
    \/ \E job \in JobIds, me \in MasterElapsed : PlayerHeartbeat(2, job, me, 970)

StaleSpec == Init /\ [][StaleNext]_vars

\* Heartbeats of both members in every transport state, with and without a
\* session of the leader
GuardNext ==
    \/ \E p \in Members : Connect(p, 1)
    \/ \E p \in Members : Disconnect(p)
    \/ \E p \in Members, s \in SlimPlayerState : Stat(p, s)
    \/ CmdSync(2, 1)
    \/ \E p \in Members, me \in MasterElapsed : PlayerHeartbeat(p, 1, me, 970)

GuardSpec == Init /\ [][GuardNext]_vars

\* DECODER_READY events of both members, with and without metadata, an own
\* source and a next item in the queue
HandoffNext ==
    \/ \E p \in Members : Connect(p, 1)
    \/ \E p \in Members : Disconnect(p)
    \/ \E p \in Members, s \in {"stopped", "playing"} : Stat(p, s)
    \/ \E c \in Members : CmdSync(c, 1)
    \/ \E p \in Members, meta \in BOOLEAN, own \in BOOLEAN, empty \in BOOLEAN :
          DecoderReady(p, meta, own, empty)

HandoffSpec == Init /\ [][HandoffNext]_vars

\* "output_underrun" events of both members, playing or stopped
UnderrunNext ==
    \/ \E p \in Members : Connect(p, 1)
    \/ \E p \in Members : Disconnect(p)
    \/ \E p \in Members, s \in {"stopped", "playing"} : Stat(p, s)
    \/ \E c \in Members : CmdSync(c, 1)
    \/ \E p \in Members : OutputUnderrun(p)

UnderrunSpec == Init /\ [][UnderrunNext]_vars

\* Sessions of that group that come and go while the power and the volume
\* of the clients change
CacheNext ==
    \/ \E p \in Members, s \in Sessions : Connect(p, s)
    \/ \E p \in Members : Disconnect(p)
    \/ \E p \in Members, pow \in BOOLEAN, vol \in Volumes : StatVolume(p, pow, vol)
    \/ CmdSync(2, 1)

CacheSpec == Init /\ [][CacheNext]_vars

\* Sessions of that group that go while the group plays
LeaderGoneNext ==
    \/ \E p \in Members : Connect(p, 1)
    \/ \E p \in Members : Disconnect(p)
    \/ \E p \in Members : Stat(p, "playing")
    \/ \E p \in Members, pow \in BOOLEAN, vol \in Volumes : StatVolume(p, pow, vol)
    \/ CmdSync(2, 1)

LeaderGoneSpec == Init /\ [][LeaderGoneNext]_vars

\* Sessions of that group that come and go, also by eviction, until the
\* server closes and the provider is unloaded
LifecycleNext ==
    \/ \E p \in Members, s \in Sessions : Connect(p, s)
    \/ \E p \in Members : Disconnect(p)
    \/ \E p \in Members : DisconnectClosing(p)
    \/ \E p \in Members, s \in Sessions : DisconnectedLate(p, s)
    \/ ServerCloses
    \/ Unload

LifecycleSpec == Init /\ [][LifecycleNext]_vars

\* Heartbeats of follower 2 with and without skipped seconds and configured
\* delays, of the leader and of the follower
SkippedSeconds == {0, 1}
SyncDelays == {0, 15}
Readings(E) ==
    {Reading(e, sk, sd) : e \in E, sk \in SkippedSeconds, sd \in SyncDelays}
FollowerElapsed == {990}

DiffNext ==
    \/ \E p \in Members : Connect(p, 1)
    \/ \E p \in Members : Stat(p, "playing")
    \/ CmdSync(2, 1)
    \/ \E m \in Readings(MasterElapsed), c \in Readings(FollowerElapsed) :
          (c.skipped = 0 \/ c.sync_delay = 0) /\ PlayerHeartbeatOf(2, 1, m, c)

DiffSpec == Init /\ [][DiffNext]_vars

\* BUFFER_READY and DECODER_READY events of both members
ReadinessNext ==
    \/ \E p \in Members : Connect(p, 1)
    \/ \E p \in Members : Stat(p, "playing")
    \/ CmdSync(2, 1)
    \/ \E p \in Members : BufferReadyEvent(p)
    \/ \E p \in Members : BufferReadyStart(p)
    \/ \E p \in Members : BufferReadyPoll(p)
    \/ \E p \in Members, meta \in BOOLEAN, own \in BOOLEAN, empty \in BOOLEAN :
          DecoderReady(p, meta, own, empty)

ReadinessSpec == Init /\ [][ReadinessNext]_vars

\* stop, play and pause on that group, with clients in every
\* transport state
TransportNext ==
    \/ \E p \in Members : Connect(p, 1)
    \/ \E p \in Members : Disconnect(p)
    \/ \E p \in Members, s \in SlimPlayerState : Stat(p, s)
    \/ \E c \in Members : CmdSync(c, 1)
    \/ \E p \in Members : CmdStop(p)
    \/ \E p \in Members : CmdPlay(p)
    \/ \E p \in Members : CmdPause(p)

TransportSpec == Init /\ [][TransportNext]_vars

\* The buffer-ready coordinator of that group; the event loop resumes a task
\* that is ready to run or whose sleep is over
StartNext ==
    \/ \E p \in Members : Connect(p, 1)
    \/ \E p \in Members : Disconnect(p)
    \/ \E p \in Members, s \in {"stopped", "playing"} : Stat(p, s)
    \/ \E c \in Members : CmdSync(c, 1)
    \/ \E p \in Members, j \in Jiffies : StatJiffies(p, j)
    \/ \E p \in Members : BufferReadyEvent(p)
    \/ \E p \in Members : BufferReadyStart(p)
    \/ \E p \in Members : BufferReadyPoll(p)

\* play_url and stream-job play on that group, with sends that can fail, and
\* the BUFFER_READY events that follow a start
PlayNext ==
    \/ \E p \in Members : Connect(p, 1)
    \/ \E p \in Members : Disconnect(p)
    \/ \E c \in Members : CmdSync(c, 1)
    \/ \E p \in Members, op \in {"play_url", "stream_job"} : CmdPlayUrlStop(op, p)
    \/ CmdPlayUrlStart
    \/ CmdPlayUrlStartFails
    \/ \E p \in Members : BufferReadyEvent(p)
    \/ \E p \in Members : BufferReadyStart(p)
    \/ \E p \in Members : BufferReadyPoll(p)

PlaySpec == Init /\ [][PlayNext]_vars

StartSpec ==
    /\ Init
    /\ [][StartNext]_vars
    /\ \A p \in Players : WF_vars(BufferReadyStart(p))
    /\ \A p \in Players : WF_vars(BufferReadyPoll(p))

\* ------------------------------------------------------------------ claims
\* C1: at every quiescent point, every player P with synced_to = L # None has
\* L in the player table, P in L's follower set and L's own synced_to null.
\* (L is only asked to be in the player table, not to hold a session.)
C1_FollowerPointsToLeader ==
    Quiescent =>
        \A p \in players :
            synced_to[p] # None =>
                /\ synced_to[p] \in players
                /\ p \in group_childs[synced_to[p]]
                /\ synced_to[synced_to[p]] = None

\* C2: at every quiescent point, every id in a player L's follower set, other
\* than L itself, is in the player table and has synced_to = L.
C2_FollowersPointBack ==
    Quiescent =>
        \A l \in players :
            \A f \in group_childs[l] \ {l} :
                f \in players /\ synced_to[f] = l

\* C3: no transitive sync: a player with a leader has no followers and a
\* player with followers has no leader, in every state.
C3_NoTransitiveSync ==
    \A p \in Players :
        /\ synced_to[p] # None => group_childs[p] = {}
        /\ group_childs[p] # {} => synced_to[p] = None

\* C4: a sync whose leader has a non-null synced_to itself reports an error
\* and changes no follower set and no synced_to.
C4_TransitiveSyncFails ==
    [][(/\ last'.op = "sync"
        /\ last'.pid \in players
        /\ last'.arg \in players
        /\ synced_to[last'.arg] # None)
       => (last'.err /\ UNCHANGED graphVars)]_vars

\* C5: sync(p, p) changes no synced_to and no follower set and requests no
\* queue restart.
C5_SelfSyncIsNoOp ==
    [][(/\ last'.op = "sync"
        /\ last'.pid = last'.arg
        /\ last'.pid \in players)
       => (UNCHANGED graphVars /\ ~last'.flag)]_vars

\* sync(a, b) followed by unsync(a), computed from the current sync graph:
\* the synced_to map and the follower sets afterwards
RoundTripSyncedTo(a, b) ==
    UnsyncSyncedTo(SyncSyncedTo(synced_to, a, b), a)

RoundTripGroupChilds(a, b) ==
    LET st1 == SyncSyncedTo(synced_to, a, b)
        gc1 == SyncGroupChilds(group_childs, a, b)
    IN  UnsyncGroupChilds(gc1, a, st1[a])

\* the sync graph is as section 8 of the specification wants it
GraphWellFormed ==
    /\ C1_FollowerPointsToLeader
    /\ C2_FollowersPointBack
    /\ C3_NoTransitiveSync

\* C6 as stated: from any quiescent state and for any two players of the
\* player table, sync(a, b); unsync(a) restores every synced_to and every
\* follower set.  (Asked here only of two different players in a well-formed
\* sync graph.)
C6_RoundTripAnyConfiguration ==
    (Quiescent /\ GraphWellFormed) =>
        \A a \in players, b \in players :
            a # b =>
            /\ RoundTripSyncedTo(a, b) = synced_to
            /\ RoundTripGroupChilds(a, b) = group_childs

\* C6 as amended: sync(a, b); unsync(a) restores every synced_to and every
\* follower set when a # b, a has no leader and is not in b's follower set,
\* and b's follower set is empty or holds b and another player.
C6_RoundTripFromUnsynced ==
    Quiescent =>
        \A a \in players, b \in players :
            (/\ a # b
             /\ synced_to[a] = None
             /\ a \notin group_childs[b]
             /\ \/ group_childs[b] = {}
                \/ b \in group_childs[b] /\ group_childs[b] # {b})
            => /\ RoundTripSyncedTo(a, b) = synced_to
               /\ RoundTripGroupChilds(a, b) = group_childs

\* C6 witness: an unsync that directly followed the sync of the same child to
\* another player has finished and a group of that leader is still there.
C6_Witness ==
    /\ last.op = "unsync"
    /\ last.flag
    /\ ~last.err
    /\ last.pid # last.arg
    /\ synced_to[last.pid] = None
    /\ Cardinality(group_childs[last.arg]) = 2

\* C7: the first step of unsync(child) sends the stop (strm 'q' to the child
\* when it has a session and is not stopped, leaving it stopped) and changes
\* no synced_to and no follower set; the second step, for a child synced to
\* L, follows it directly, clears child.synced_to, removes the child from L's
\* follower set, empties the set when only L is left in it, keeps L's other
\* followers, and changes nothing else of the sync graph.
C7_UnsyncStopsThenDetaches ==
    [][/\ last'.op = "unsync_stop" =>
            LET child == last'.pid
            IN  /\ UNCHANGED graphVars
                /\ (<<child, "q">> \in last'.frames) <=>
                       (socket_clients[child] # None /\ cstate[child] # "stopped")
                /\ socket_clients[child] # None => cstate'[child] = "stopped"
       /\ (last'.op = "unsync" /\ last'.arg # None) =>
            LET child == last'.pid
                l == last'.arg
                rest == group_childs[l] \ {child}
            IN  /\ last.op = "unsync_stop" /\ last.pid = child
                /\ synced_to[child] = l
                /\ ~last'.err
                /\ synced_to'[child] = None
                /\ child \notin group_childs'[l]
                /\ group_childs'[l] = IF rest = {l} THEN {} ELSE rest
                /\ \A p \in Players \ {child} : synced_to'[p] = synced_to[p]
                /\ \A p \in Players \ {l} : group_childs'[p] = group_childs[p]
      ]_vars

\* C7 witness: an unsync from a leader has finished, the child had been sent
\* the stop, and another follower is still in the leader's set.
C7_Witness ==
    /\ last.op = "unsync"
    /\ ~last.err
    /\ last.arg # last.pid
    /\ cstate[last.pid] = "stopped"
    /\ synced_to[last.pid] = None
    /\ \E f \in group_childs[last.arg] : f # last.arg /\ synced_to[f] = last.arg

TransportOps == {"stop", "play", "pause", "play_url", "stream_job"}

HasSession(S) == {q \in S : socket_clients[q] # None}

\* the leader of p's group: its synced_to, or p itself
LeaderOf(p) == IF synced_to[p] # None THEN synced_to[p] ELSE p

\* C8 as stated: a command on p is fanned out to {p} when p has no followers
\* and no leader, and otherwise to the full group of p's leader, also when p
\* is a follower (of each set, the members that have a session).  (Asked here
\* only in a well-formed sync graph.)
C8_FanOutIsLeadersGroup ==
    (last.op \in TransportOps /\ ~last.err /\ GraphWellFormed) =>
        LET p == last.pid
        IN  last.targets =
                IF group_childs[p] = {} /\ synced_to[p] = None
                THEN HasSession({p})
                ELSE HasSession({LeaderOf(p)} \cup group_childs[LeaderOf(p)])

\* C8 as amended: a command on p is fanned out to {p} when p has no followers,
\* also when p is a follower of another player, and to p plus all of p's
\* followers when p has followers (of each set, the members that have a
\* session).
C8_FanOutIsOwnGroup ==
    (last.op \in TransportOps /\ ~last.err) =>
        LET p == last.pid
        IN  /\ group_childs[p] = {} => last.targets = HasSession({p})
            /\ group_childs[p] # {} =>
                   last.targets = HasSession({p} \cup group_childs[p])
            /\ \A f \in last.frames : f[1] \in last.targets

\* C8 witness: a stop on a follower went to the follower alone while its
\* leader, with a session, was playing and was not stopped.
C8_Witness ==
    /\ last.op = "stop"
    /\ synced_to[last.pid] \notin {None, last.pid}
    /\ last.targets = {last.pid}
    /\ last.frames = {<<last.pid, "q">>}
    /\ socket_clients[synced_to[last.pid]] # None
    /\ cstate[synced_to[last.pid]] = "playing"
    /\ last.pid \in group_childs[synced_to[last.pid]]

C10_BufferWaitEnds ==
    \A p \in Players :
        (br_pc[p] = "polling") ~>
            (last.op = "buffer_ready_unpause" /\ last.pid = p)

\* C11: the buffer-ready handler of a player p goes on to wait for its group
\* only when p has no leader and a non-empty follower set; each of its steps
\* from there on sends nothing and goes to sleep while some
\* sync client of p is not BUFFER_READY (and the poll limit is not reached);
\* otherwise it writes to every sync client x of p, leader and followers,
\* exactly one strm 'u' whose replay_gain is jiffies[x] + 20.
C11_CoordinatedUnpause ==
    [][\A p \in Players :
          (/\ last'.pid = p
           /\ last'.op \in {"buffer_ready_sleep", "buffer_ready_unpause"}
           /\ br_pc[p] \in {"start", "polling"})
          => /\ br_pc[p] = "start" => synced_to[p] = None /\ group_childs[p] # {}
             /\ (~AllReady(p) /\ count[p] < MAX_POLLS) =>
                    last'.op = "buffer_ready_sleep" /\ last'.frames = {}
             /\ AllReady(p) =>
                    /\ last'.op = "buffer_ready_unpause"
                    /\ last'.targets = HasSession({p} \cup group_childs[p])
                    /\ last'.frames =
                           {<<x, "u", jiffies[x] + 20>> : x \in last'.targets}
      ]_vars

\* C11 witness: the leader has sent the unpause to itself and to a follower
\* whose clock differs from its own, after having waited for it.
C11_Witness ==
    /\ last.op = "buffer_ready_unpause"
    /\ \E f \in last.targets :
           /\ f # last.pid
           /\ synced_to[f] = last.pid
           /\ jiffies[f] # jiffies[last.pid]
           /\ <<f, "u", jiffies[f] + 20>> \in last.frames
    /\ <<last.pid, "u", jiffies[last.pid] + 20>> \in last.frames

\* the members of p's own group: p and its follower set
GroupOf(p) == {p} \cup group_childs[p]

\* C12 as stated: a play_url on a player without leader writes strm 's' to
\* every member of its group that has a session; the start carries
\* autostart=false when the group has more than one member and
\* autostart=true when the player is alone.  (Asked here only in a
\* well-formed sync graph.)
C12_AutostartByGroupSize ==
    (/\ last.op \in {"play_url", "stream_job"}
     /\ ~last.err
     /\ GraphWellFormed) =>
        /\ last.frames = {<<c, "s">> : c \in HasSession(GroupOf(last.pid))}
        /\ last.frames # {} =>
               /\ Cardinality(GroupOf(last.pid)) > 1 => ~last.flag
               /\ Cardinality(GroupOf(last.pid)) = 1 => last.flag

\* C12 as amended: a play_url on a player without leader writes strm 's' to
\* every member of its group that has a session; the start carries
\* autostart=false when more than one member of the group has a session and
\* autostart=true when exactly one has.
C12_AutostartByConnectedMembers ==
    (/\ last.op \in {"play_url", "stream_job"}
     /\ ~last.err) =>
        /\ last.frames = {<<c, "s">> : c \in HasSession(GroupOf(last.pid))}
        /\ last.frames # {} =>
               /\ Cardinality(HasSession(GroupOf(last.pid))) > 1 => ~last.flag
               /\ Cardinality(HasSession(GroupOf(last.pid))) = 1 => last.flag

\* C12 witness: a play_url on a leader has written the start with
\* autostart=false to the leader and to a follower.
C12_Witness ==
    /\ last.op = "play_url"
    /\ ~last.err
    /\ ~last.flag
    /\ \E f \in Players \ {last.pid} :
           /\ synced_to[f] = last.pid
           /\ last.frames = {<<last.pid, "s">>, <<f, "s">>}

\* p has no leader and no followers
Lone(p) == synced_to[p] = None /\ group_childs[p] = {}

\* C13 as stated: for a player with no leader and no followers that has a
\* session, a play_url that succeeds sends exactly one strm 's', with
\* autostart=true, and the handling of its BUFFER_READY sends no frame.
C13_LonePlayerNoFurtherFrame ==
    /\ (/\ last.op \in {"play_url", "stream_job"}
        /\ ~last.err
        /\ Lone(last.pid)
        /\ socket_clients[last.pid] # None)
       => last.frames = {<<last.pid, "s">>} /\ last.flag
    /\ (last.op = "buffer_ready" /\ Lone(last.pid)) => last.frames = {}

\* C13 as amended: for a player with no leader and no followers that has a
\* session, a play_url that succeeds sends exactly one strm 's', with
\* autostart=true, and the handling of its BUFFER_READY sends exactly one
\* frame, a strm 'u' to that player.
C13_LonePlayerIsUnpaused ==
    /\ (/\ last.op \in {"play_url", "stream_job"}
        /\ ~last.err
        /\ Lone(last.pid)
        /\ socket_clients[last.pid] # None)
       => last.frames = {<<last.pid, "s">>} /\ last.flag
    /\ (last.op = "buffer_ready" /\ Lone(last.pid)) =>
           last.frames = {<<last.pid, "u">>}

\* C13 witness: the BUFFER_READY of a connected player with no leader and no
\* followers has been handled and the player was sent the unpause.
C13_Witness ==
    /\ last.op = "buffer_ready"
    /\ Lone(last.pid)
    /\ socket_clients[last.pid] # None
    /\ cstate[last.pid] = "buffer_ready"
    /\ last.frames = {<<last.pid, "u">>}

\* C14: when a play_url or stream-job play is fanned out and the send to some
\* sync clients fails, every other sync client is still written its strm 's',
\* and the command raises.
C14_FailureIsolated ==
    (/\ last.op \in {"play_url", "stream_job"}
     /\ last.targets # {})
    => /\ last.err <=> last.arg # {}
       /\ last.err =>
              \A c \in last.targets \ last.arg : <<c, "s">> \in last.frames

\* C15: when a session connects under an id that has a session in the session
\* map, the step is the connect handler's, the incumbent is no longer in the
\* map and its socket is closed, and the new session is the one in the map;
\* in every state the only open session of an id is the one in the map.
C15_ReconnectEvicts ==
    [][\A p \in Players :
          /\ (socket_clients[p] # None /\ socket_clients'[p] \notin {None, socket_clients[p]})
             => /\ last'.op = "connect" /\ last'.flag
                /\ socket_clients[p] \notin open_sessions'[p]
                /\ socket_clients'[p] \in open_sessions'[p]
          /\ open_sessions'[p] = {socket_clients'[p]} \ {None}
      ]_vars

\* C15 witness: a second session has connected under the id of a first one
\* that was still in the map; it is the only open session of that id.
C15_Witness ==
    /\ last.op = "connect"
    /\ last.flag
    /\ \E p \in players : socket_clients[p] = 2 /\ open_sessions[p] = {2}

\* C16: at every quiescent point the can_sync_with of every player of the
\* player table is the set of the other players that have a session.
C16_CanSyncWithIsOthers ==
    Quiescent =>
        \A p \in players :
            can_sync_with[p] = {x \in players : socket_clients[x] # None /\ x # p}

\* C17: a stop writes strm 'q' to the sync clients that are not stopped and
\* leaves every sync client stopped; a stop that directly follows a stop of
\* the same player writes no frame and changes no client state.
C17_StopIsIdempotent ==
    [][last'.op = "stop" =>
          /\ last'.frames = {<<c, "q">> : c \in {t \in last'.targets : cstate[t] # "stopped"}}
          /\ \A c \in last'.targets : cstate'[c] = "stopped"
          /\ (last.op = "stop" /\ last.pid = last'.pid) =>
                 last'.frames = {} /\ cstate' = cstate
      ]_vars

\* C17 witness: a second stop of a group of two connected players, right
\* after a first one that had stopped somebody, has written nothing.
C17_Witness ==
    /\ last.op = "stop"
    /\ last.flag
    /\ last.frames = {}
    /\ Cardinality(last.targets) = 2
    /\ \A c \in last.targets : cstate[c] = "stopped"

\* C18: a play writes strm 'u' to exactly the sync clients that are paused,
\* buffering or buffer-ready, a pause writes strm 'p' to exactly those that
\* are playing, buffering or buffer-ready, and neither raises.
C18_PlayPauseSkip ==
    /\ last.op = "play" =>
           /\ ~last.err
           /\ last.frames =
                  {<<c, "u">> : c \in {t \in last.targets :
                       cstate[t] \in {"paused", "buffering", "buffer_ready"}}}
    /\ last.op = "pause" =>
           /\ ~last.err
           /\ last.frames =
                  {<<c, "p">> : c \in {t \in last.targets :
                       cstate[t] \in {"playing", "buffering", "buffer_ready"}}}

\* C18 witness: a play on a group went to the paused leader and not to its
\* connected follower, which is playing.
C18_Witness ==
    /\ last.op = "play"
    /\ ~last.err
    /\ cstate[last.pid] = "paused"
    /\ last.frames = {<<last.pid, "u">>}
    /\ \E f \in last.targets :
           f # last.pid /\ synced_to[f] = last.pid /\ cstate[f] = "playing"

\* C19: the first step of play_url and of stream-job play on p writes strm 'q'
\* to every connected member of p's group that is not stopped and strm 's' to
\* nobody; strm 's' is written only by the second step, which follows the first
\* directly, and every client that is written it is stopped by then.
C19_StopBeforeStart ==
    [][/\ running'.op \in {"play_url", "stream_job"} =>
            /\ last'.op = "stop" /\ last'.pid = running'.pid
            /\ last'.frames =
                   {<<c, "q">> : c \in {t \in HasSession(GroupOf(running'.pid)) :
                                           cstate[t] # "stopped"}}
       /\ (last'.op \in {"play_url", "stream_job"} /\ last'.frames # {}) =>
            /\ running.op = last'.op /\ running.pid = last'.pid
            /\ last.op = "stop" /\ last.pid = last'.pid
            /\ last.targets = last'.targets
            /\ \A f \in last'.frames : f[2] = "s" /\ cstate[f[1]] = "stopped"
      ]_vars

\* C19 witness: a play_url on a leader has sent the stop to the leader and to
\* its follower, which were both playing, and has not yet sent a start.
C19_Witness ==
    /\ running.op = "play_url"
    /\ last.op = "stop"
    /\ last.pid = running.pid
    /\ synced_to[last.pid] = None
    /\ \E f \in Players \ {last.pid} :
           /\ synced_to[f] = last.pid
           /\ last.frames = {<<last.pid, "q">>, <<f, "q">>}
           /\ cstate[f] = "stopped" /\ cstate[last.pid] = "stopped"

\* C20: a heartbeat that leaves fewer than MIN_REQ_PLAYPOINTS (4) playpoints
\* in the ring of its client has evaluated no mean and written no frame; one
\* that leaves 4 has evaluated the mean; a mean is evaluated only when the
\* ring held at least 3 playpoints before, and a frame is written only when
\* the mean was evaluated.
C20_MeanNeedsFourPlaypoints ==
    [][last'.op = "heartbeat" =>
          LET p == last'.pid
          IN  /\ Len(sync_playpoints'[p]) \in 1..3 =>
                     ~last'.flag /\ last'.frames = {}
              /\ (Len(sync_playpoints'[p]) = 4 /\ sync_playpoints'[p] # sync_playpoints[p])
                     => last'.flag
              /\ last'.flag => Len(sync_playpoints[p]) >= 3
              /\ ~last'.flag => last'.frames = {}
              /\ Len(sync_playpoints'[p]) <= 4
      ]_vars

\* C20 witness: the heartbeat that made the ring of a follower four
\* playpoints long has evaluated the mean (and found it in the deadband).
C20_Witness ==
    /\ last.op = "heartbeat"
    /\ last.flag
    /\ last.arg.outcome = "deadband"
    /\ synced_to[last.pid] \notin {None, last.pid}
    /\ Len(sync_playpoints[last.pid]) = 4
    /\ sync_playpoints[last.pid][4].timestamp = now
    /\ sync_playpoints[last.pid][1].timestamp = now - 3000

\* the ring that the heartbeat of a step evaluated: the ring of before,
\* without its oldest playpoint when it was full, and the new playpoint
Evaluated(p) ==
    LET E == last'.arg.evaluated
        kept == IF Len(sync_playpoints[p]) = 4
                THEN Tail(sync_playpoints[p]) ELSE sync_playpoints[p]
    IN  IF Len(E) = 4 /\ E = Append(kept, E[4]) /\ E[4].timestamp = now
        THEN E ELSE <<>>

\* C21: a heartbeat that evaluates the mean of a full ring (4 playpoints)
\* and finds its absolute value below 10 ms (the sum of the 4 diffs is
\* within -39..39) writes no frame, clears nothing (the ring holds the 4
\* playpoints evaluated) and leaves the backoff as it was; a mean of +10 or
\* -10 ms or more writes one correction frame, strm 'a' or strm 'p', to the
\* follower.
C21_Deadband ==
    [][(last'.op = "heartbeat" /\ last'.flag) =>
          LET p == last'.pid
              E == Evaluated(p)
          IN  /\ Len(E) = 4
              /\ Abs(SumDiffs(E)) < 10 * 4 =>
                     /\ last'.frames = {}
                     /\ sync_playpoints'[p] = E
                     /\ do_not_resync_before'[p] = do_not_resync_before[p]
              /\ Abs(SumDiffs(E)) >= 10 * 4 =>
                     \E g \in 10..1000 :
                         last'.frames \in {{<<p, "a", g>>}, {<<p, "p", g>>}}
      ]_vars

\* C21 witness: the mean of the diffs 10, 10, 10 and 9 is 9.75 ms, and the
\* heartbeat that brought the fourth has written no frame.
C21_Witness ==
    /\ last.op = "heartbeat"
    /\ last.flag
    /\ last.frames = {}
    /\ synced_to[last.pid] \notin {None, last.pid}
    /\ Len(sync_playpoints[last.pid]) = 4
    /\ SumDiffs(sync_playpoints[last.pid]) = 39
    /\ sync_playpoints[last.pid][4].diff = 9
    /\ last.arg.evaluated = sync_playpoints[last.pid]

\* C22: a heartbeat that evaluates a mean diff of +10 ms or more writes
\* exactly one frame, strm 'a' to the follower with replay_gain = the mean
\* (its whole milliseconds), sets the backoff of the follower to now + 2 s and
\* leaves its ring empty.
C22_FollowerBehindSkipsAhead ==
    [][(last'.op = "heartbeat" /\ last'.flag) =>
          LET p == last'.pid
              E == Evaluated(p)
          IN  (Len(E) = 4 /\ SumDiffs(E) >= 10 * 4) =>
                  /\ last'.frames = {<<p, "a", SumDiffs(E) \div 4>>}
                  /\ do_not_resync_before'[p] = 4 * (now + 2000)
                  /\ sync_playpoints'[p] = <<>>
      ]_vars

\* C22 witness: four diffs of 30 ms, the last of them at 1 s, have made the
\* controller write strm 'a' with replay_gain 30 to follower 2.
C22_Witness ==
    /\ last.op = "heartbeat"
    /\ last.pid = 2 /\ synced_to[2] = 1
    /\ last.flag
    /\ Len(last.arg.evaluated) = 4
    /\ \A i \in 1..4 : last.arg.evaluated[i].diff = 30
    /\ last.frames = {<<2, "a", 30>>}
    /\ now = 1000
    /\ do_not_resync_before[2] = 4 * 3000
    /\ sync_playpoints[2] = <<>>

\* C23: a heartbeat that evaluates a mean diff of -10 ms or less writes
\* exactly one frame, strm 'p' to the follower with replay_gain = |mean| (its
\* whole milliseconds), sets the backoff of the follower to
\* now + (|mean| / 1000 + 2) s and leaves its ring empty.
C23_FollowerAheadPauses ==
    [][(last'.op = "heartbeat" /\ last'.flag) =>
          LET p == last'.pid
              E == Evaluated(p)
          IN  (Len(E) = 4 /\ SumDiffs(E) <= -10 * 4) =>
                  /\ last'.frames = {<<p, "p", (-SumDiffs(E)) \div 4>>}
                  /\ do_not_resync_before'[p] = 4 * (now + 2000) - SumDiffs(E)
                  /\ sync_playpoints'[p] = <<>>
      ]_vars

\* C23 witness: four diffs of -40 ms, the last of them at 1 s, have made the
\* controller write strm 'p' with replay_gain 40 to follower 2 and set its
\* backoff to 3.04 s.
C23_Witness ==
    /\ last.op = "heartbeat"
    /\ last.pid = 2 /\ synced_to[2] = 1
    /\ last.flag
    /\ Len(last.arg.evaluated) = 4
    /\ \A i \in 1..4 : last.arg.evaluated[i].diff = -40
    /\ last.frames = {<<2, "p", 40>>}
    /\ now = 1000
    /\ do_not_resync_before[2] = 4 * 3040
    /\ sync_playpoints[2] = <<>>

\* C24: a heartbeat writes a correction frame (strm 'a' or 'p') only when
\* every backoff time recorded so far for its follower has passed: now + 2 s
\* of a skip ahead, now + |mean| / 1000 + 2 s of a pause, now + 1 s of a
\* coordinated unpause.
C24_EveryBackoffIsWaitedFor ==
    [][(last'.op = "heartbeat" /\ last'.frames # {}) =>
          4 * now >= backoff_recorded[last'.pid]
      ]_vars

\* a heartbeat that got to the ring of its client
ReachedRing(outcome) == outcome \in {"short", "deadband", "skip", "pause"}

\* the most recent playpoint of the ring is older than 10 s or of another
\* stream job
StalePlayPoint(ring, job) ==
    /\ ring # <<>>
    /\ \/ now - ring[Len(ring)].timestamp > 10000
       \/ ring[Len(ring)].sync_job_id # job

\* C25 (as claimed): a heartbeat that gets to the ring of its follower and
\* finds the most recent playpoint older than 10 s, or of another stream job
\* than the current one, leaves the ring empty and writes no frame.
C25_InvalidationEmptiesRing ==
    [][(/\ last'.op = "heartbeat"
        /\ ReachedRing(last'.arg.outcome)
        /\ StalePlayPoint(sync_playpoints[last'.pid], last'.arg.job)) =>
          /\ sync_playpoints'[last'.pid] = <<>>
          /\ last'.frames = {}
      ]_vars

\* C25 (amended): such a heartbeat clears the ring and then appends its own
\* playpoint: afterwards the ring holds exactly one playpoint, taken now for
\* the current stream job, no mean was evaluated and no frame was written. A
\* heartbeat that finds the most recent playpoint at most 10 s old and of the
\* current job keeps the playpoints of a ring that is not full.
C25_InvalidationRestartsRing ==
    [][(last'.op = "heartbeat" /\ ReachedRing(last'.arg.outcome)) =>
          LET p == last'.pid
              ring == sync_playpoints[p]
              job == last'.arg.job
          IN  /\ StalePlayPoint(ring, job) =>
                     /\ Len(sync_playpoints'[p]) = 1
                     /\ sync_playpoints'[p][1].timestamp = now
                     /\ sync_playpoints'[p][1].sync_job_id = job
                     /\ ~last'.flag
                     /\ last'.frames = {}
              /\ (~StalePlayPoint(ring, job) /\ Len(ring) < 3) =>
                     /\ Len(sync_playpoints'[p]) = Len(ring) + 1
                     /\ \A i \in 1..Len(ring) : sync_playpoints'[p][i] = ring[i]
      ]_vars

\* C25 witness: 11 s after the three heartbeats that had filled the ring of
\* follower 2 up to three playpoints, a heartbeat has left one playpoint in
\* it, its own.
C25_Witness ==
    /\ last.op = "heartbeat"
    /\ last.pid = 2 /\ synced_to[2] = 1
    /\ last.arg.outcome = "short"
    /\ last.arg.dropped = 3
    /\ now = 11000
    /\ backoff_recorded[2] = 0
    /\ Len(sync_playpoints[2]) = 1
    /\ sync_playpoints[2][1].timestamp = 11000

\* C26: a heartbeat of a follower that is not PLAYING, or whose leader is
\* not PLAYING or has no session, appends no playpoint to the ring of the
\* follower, writes no frame and records no backoff; neither does the
\* heartbeat of a player that is no follower.
C26_OnlyWhenBothPlaying ==
    [][last'.op = "heartbeat" =>
          LET p == last'.pid
              m == synced_to[p]
          IN  (\/ m = None
               \/ socket_clients[m] = None
               \/ cstate[m] # "playing"
               \/ cstate[p] # "playing") =>
                  /\ sync_playpoints' = sync_playpoints
                  /\ do_not_resync_before' = do_not_resync_before
                  /\ last'.frames = {}
      ]_vars

\* C26 witness: follower 2 is playing and its ring holds three playpoints;
\* its leader is paused, and the heartbeat that would have brought the
\* fourth has changed nothing.
C26_Witness ==
    /\ last.op = "heartbeat"
    /\ last.pid = 2 /\ synced_to[2] = 1
    /\ socket_clients[1] # None /\ socket_clients[2] # None
    /\ cstate[1] = "paused" /\ cstate[2] = "playing"
    /\ Len(sync_playpoints[2]) = 3
    /\ last.frames = {}

\* C27 (as claimed): a DECODER_READY event of a player that is not synced
\* to another and is not stopped asks the queue for the next URL; with a next
\* URL one play_url frame with flush = false and autostart = true goes to
\* every group member with a session, and with an empty queue no frame is
\* written and nothing is raised.
C27_HandoffWhenNotStopped ==
    (/\ last.op = "decoder_ready"
     /\ synced_to[last.pid] = None
     /\ cstate[last.pid] # "stopped") =>
        /\ last.flag
        /\ ~last.err
        /\ IF last.arg.empty
           THEN last.frames = {}
           ELSE last.frames =
                    {<<c, "s", FALSE, TRUE>> :
                        c \in {x \in GroupOf(last.pid) : socket_clients[x] # None}}

\* C27 (amended): that happens when, besides, the session of the player has
\* metadata of a current item and the player is its own active source;
\* without either, and for a follower or a stopped player, the queue is not
\* asked and no frame is written.
C27_HandoffOfOwnQueueItem ==
    last.op = "decoder_ready" =>
        IF /\ synced_to[last.pid] = None
           /\ cstate[last.pid] # "stopped"
           /\ last.arg.meta
           /\ last.arg.own
        THEN /\ last.flag
             /\ ~last.err
             /\ IF last.arg.empty
                THEN last.frames = {}
                ELSE last.frames =
                         {<<c, "s", FALSE, TRUE>> :
                             c \in {x \in GroupOf(last.pid) : socket_clients[x] # None}}
        ELSE ~last.flag /\ last.frames = {}

\* C27 witness: leader 1, playing an item of its own queue, has reported
\* DECODER_READY, and the play_url frames with flush = false and
\* autostart = true were written to it and to its follower 2.
C27_Witness ==
    /\ last.op = "decoder_ready"
    /\ last.pid = 1
    /\ synced_to[2] = 1 /\ group_childs[1] = {1, 2}
    /\ cstate[1] = "playing"
    /\ last.arg.outcome = "next"
    /\ last.frames = {<<1, "s", FALSE, TRUE>>, <<2, "s", FALSE, TRUE>>}

\* C28: an "output_underrun" event of a player with synced_to = None stops
\* it and its group: strm 'q' goes to every group member with a session that
\* is not stopped, and all of them are stopped afterwards. The event of a
\* player synced to a leader calls cmd_sync(player, leader) again: the sync
\* graph holds the pair afterwards, no strm 'q' is written and no client
\* state changes.
C28_UnderrunPolicy ==
    [][last'.op = "underrun" =>
          LET p == last'.pid
              l == synced_to[p]
              members == {x \in GroupOf(p) : socket_clients[x] # None}
          IN  IF l = None
              THEN /\ last'.arg.called = "stop"
                   /\ last'.frames = {<<c, "q">> : c \in {x \in members : cstate[x] # "stopped"}}
                   /\ \A x \in members : cstate'[x] = "stopped"
                   /\ UNCHANGED graphVars
              ELSE /\ last'.arg = [called |-> "sync", parent |-> l]
                   /\ last'.frames = {}
                   /\ UNCHANGED cstate
                   /\ synced_to'[p] = l
                   /\ {l, p} \subseteq group_childs'[l]
      ]_vars

\* C28 witness: follower 2 of leader 1, both playing, has run out of buffer:
\* sync(2, 1) was called again, which asks the queue to resume, and the leader
\* plays on.
C28_Witness ==
    /\ last.op = "underrun"
    /\ last.pid = 2
    /\ last.arg = [called |-> "sync", parent |-> 1]
    /\ last.flag
    /\ synced_to[2] = 1 /\ group_childs[1] = {1, 2}
    /\ socket_clients[1] # None
    /\ cstate[1] = "playing" /\ cstate[2] = "playing"
    /\ last.frames = {}

\* C29: cmd_sync(child, leader) with child # leader, both in the player
\* table, calls queues.resume (fade_in=False) exactly when the player state of
\* the leader is PLAYING, which is the state of a client that is playing,
\* buffering or has its buffer ready; for a leader that is idle (its client
\* stopped) or paused it is not called. Either way the follower set of the
\* leader holds the leader and the child afterwards, child.synced_to is the
\* leader, no frame is written and no client state changes.
C29_SyncResumesWhenLeaderPlays ==
    [][(last'.op = "sync" /\ ~last'.err /\ last'.pid # last'.arg) =>
          LET child == last'.pid
              leader == last'.arg
          IN  /\ last'.flag <=>
                     cstate[leader] \in {"playing", "buffering", "buffer_ready"}
              /\ cstate[leader] \in {"stopped", "paused"} => ~last'.flag
              /\ {leader, child} \subseteq group_childs'[leader]
              /\ synced_to'[child] = leader
              /\ last'.frames = {}
              /\ UNCHANGED cstate
      ]_vars

\* C29 witness: player 2 was synced to leader 1 while the leader was
\* playing, and the queue was asked to resume.
C29_Witness ==
    /\ last.op = "sync"
    /\ ~last.err
    /\ last.pid = 2 /\ last.arg = 1
    /\ last.flag
    /\ cstate[1] = "playing"
    /\ synced_to[2] = 1
    /\ group_childs[1] = {1, 2}

\* C30: the DISCONNECTED event of the session that the session map holds for
\* a player removes that entry, sets the cache entry of the player to the
\* (powered, volume_level) of that session, and marks the player unavailable;
\* the player stays in the player table with its state, synced_to and
\* group_childs, and nothing changes for the other players.
C30_DisconnectStoresPrevState ==
    [][last'.op = "disconnect" =>
          \E p \in Players :
              /\ socket_clients[p] # None
              /\ socket_clients' = [socket_clients EXCEPT ![p] = None]
              /\ prev_state' = [prev_state EXCEPT ![p] = <<powered[p], volume_level[p]>>]
              /\ available' = [available EXCEPT ![p] = FALSE]
              /\ p \in players'
              /\ UNCHANGED <<players, cstate, graphVars, can_sync_with>>
      ]_vars

\* C30 witness: player 2, follower of 1, was powered on at volume 50 when
\* its session went: the cache holds (on, 50), the player is unavailable and
\* still a follower of 1 in the player table.
C30_Witness ==
    /\ last.op = "disconnect"
    /\ socket_clients[2] = None
    /\ socket_clients[1] # None
    /\ prev_state[2] = <<TRUE, 50>>
    /\ ~available[2]
    /\ 2 \in players
    /\ synced_to[2] = 1

\* C31: the CONNECTED event of a session sets it to the power and the volume
\* of the cache entry of its player id, or to power off and volume 20 when
\* the cache has no entry; a player of the player table that has no session
\* (it was disconnected) is, by its next session, set to the power and the
\* volume that it had when its session went.
C31_ConnectRestoresPrevState ==
    [][last'.op = "connect" =>
          \A p \in Players :
              socket_clients'[p] # socket_clients[p] =>
                  /\ prev_state[p] = <<>> =>
                         powered'[p] = FALSE /\ volume_level'[p] = 20
                  /\ prev_state[p] # <<>> =>
                         <<powered'[p], volume_level'[p]>> = prev_state[p]
                  /\ (socket_clients[p] = None /\ p \in players) =>
                         /\ powered'[p] = powered[p]
                         /\ volume_level'[p] = volume_level[p]
      ]_vars

\* C31 witness: player 2, the only player so far, had been powered on at
\* volume 50 when its session went, and a new session of it has connected
\* and is powered on at volume 50.
C31_Witness ==
    /\ last.op = "connect"
    /\ ~last.flag
    /\ players = {2}
    /\ socket_clients[2] # None
    /\ prev_state[2] = <<TRUE, 50>>
    /\ powered[2] /\ volume_level[2] = 50

\* C32: the DISCONNECTED event of the session of a leader (a player with
\* followers) marks the leader unavailable and stores its power and volume
\* in the cache; the follower set of the leader and every synced_to stay as
\* they are, no frame is written, and the followers keep their sessions,
\* their transport state and their availability.
C32_LeaderDisconnectKeepsGroup ==
    [][last'.op = "disconnect" =>
          \A l \in Players :
              (/\ socket_clients[l] # None
               /\ socket_clients'[l] = None
               /\ group_childs[l] \ {l} # {}) =>
                  /\ ~available'[l]
                  /\ prev_state'[l] = <<powered[l], volume_level[l]>>
                  /\ UNCHANGED graphVars
                  /\ last'.frames = {} /\ last'.targets = {}
                  /\ UNCHANGED cstate
                  /\ \A f \in group_childs[l] \ {l} :
                         /\ socket_clients'[f] = socket_clients[f]
                         /\ available'[f] = available[f]
      ]_vars

\* C32 witness: leader 1 and its follower 2 were playing, the leader powered
\* on at volume 50, when the session of the leader went: the leader is
\* unavailable, the cache holds (on, 50), and player 2 is still its follower,
\* available and playing.
C32_Witness ==
    /\ last.op = "disconnect"
    /\ socket_clients[1] = None /\ socket_clients[2] # None
    /\ synced_to[2] = 1 /\ group_childs[1] = {1, 2}
    /\ cstate[2] = "playing"
    /\ PlayerState(1) = "playing"
    /\ ~available[1] /\ available[2]
    /\ prev_state[1] = <<TRUE, 50>>

\* the session map holds no session whose socket is closed
NoClosedSessionRegistered ==
    \A p \in Players :
        socket_clients[p] # None => socket_clients[p] \in open_sessions[p]

\* an unload step has disconnected every session of the map and emptied it
UnloadDisconnectsAll ==
    last'.op = "unload" =>
        \A p \in Players :
            /\ socket_clients'[p] = None
            /\ socket_clients[p] # None =>
                   /\ socket_clients[p] \notin open_sessions'[p]
                   /\ p \in last'.targets

\* C33 (as claimed): at every quiescent point the session map holds no
\* session whose socket is closed, and an unload disconnects every session
\* of the map and leaves the map empty.
C33_NoClosedSessionStaysRegistered ==
    [][/\ Quiescent' => NoClosedSessionRegistered'
       /\ UnloadDisconnectsAll
      ]_vars

\* C33 (amended): while the server is not closing, the session map holds at
\* every quiescent point no session whose socket is closed; a session whose
\* socket closes while the server is closing stays in the map, up to the
\* unload, which disconnects every session of the map and leaves the map
\* empty.
C33_ClosedSessionGoesAtLatestOnUnload ==
    [][/\ (Quiescent' /\ ~closing') => NoClosedSessionRegistered'
       /\ last'.op = "disconnect_closing" =>
              /\ socket_clients' = socket_clients
              /\ ~NoClosedSessionRegistered'
       /\ UnloadDisconnectsAll
       /\ ~listening' => NoClosedSessionRegistered'
      ]_vars

\* C33 witness: the provider was unloaded while both players had a session:
\* both were disconnected and the map is empty.
C33_Witness ==
    /\ last.op = "unload"
    /\ last.targets = {1, 2}
    /\ \A p \in Players : socket_clients[p] = None /\ open_sessions[p] = {}
    /\ \A p \in last.targets : disconnected[p] # {}

\* C34: the diff of the playpoint that a heartbeat records is
\* (leader elapsed + leader skipped seconds * 1000 - leader delay) -
\* (follower elapsed + follower skipped seconds * 1000 - follower delay), in
\* milliseconds; it is positive exactly when the follower is behind.
C34_DiffOfCorrectedElapsed ==
    [][(last'.op = "heartbeat" /\ ReachedRing(last'.arg.outcome)) =>
          LET p == last'.pid
              m == last'.arg.master
              c == last'.arg.client
              leader == m.elapsed + m.skipped * 1000 - m.sync_delay
              follower == c.elapsed + c.skipped * 1000 - c.sync_delay
              ring == sync_playpoints'[p]
              playpoint == IF ring = <<>>
                           THEN last'.arg.evaluated[4]
                           ELSE ring[Len(ring)]
          IN  /\ playpoint.diff = leader - follower
              /\ playpoint.diff > 0 <=> follower < leader
      ]_vars

\* C34 witness: the leader is at 1000 ms with 1 s skipped and a delay of
\* 15 ms, follower 2 at 990 ms with 1 s skipped and no delay, and the
\* heartbeat has recorded a diff of 1985 - 1990 = -5 ms.
C34_Witness ==
    /\ last.op = "heartbeat"
    /\ last.pid = 2 /\ synced_to[2] = 1
    /\ last.arg.master = Reading(1000, 1, 15)
    /\ last.arg.client = Reading(990, 1, 0)
    /\ sync_playpoints[2] # <<>>
    /\ sync_playpoints[2][Len(sync_playpoints[2])].diff = -5

\* C35: when the DISCONNECTED event of a session that was evicted from the
\* session map is handled while the map holds another session under the
\* same id, that session stays in the map and the player stays available.
C35_StaleDisconnectedKeepsNewcomer ==
    [][(/\ last'.op = "disconnected"
        /\ socket_clients[last'.pid] \notin {None, last'.arg}) =>
          /\ socket_clients'[last'.pid] = socket_clients[last'.pid]
          /\ available'[last'.pid]
      ]_vars

\* the players other than p that have p in their follower set
GroupsOf(p) == {l \in Players \ {p} : p \in group_childs[l]}

\* C36: every player is in the follower set of at most one other player, in
\* every state; a sync of a player that is in the follower set of another
\* player than the new leader takes it out of that set (and empties a set
\* left with its owner alone).
C36_AtMostOneGroup ==
    [][/\ \A p \in Players : Cardinality(GroupsOf(p)') <= 1
       /\ (last'.op = "sync" /\ ~last'.err /\ last'.pid # last'.arg) =>
              \A b \in GroupsOf(last'.pid) \ {last'.arg} :
                  /\ last'.pid \notin group_childs'[b]
                  /\ group_childs'[b] # {b}
      ]_vars

\* C37: a play_url or stream-job play on a player synced to another player
\* is rejected without effect: neither of its steps writes a frame or
\* changes the transport state of a client.
C37_RejectedPlayHasNoEffect ==
    [][/\ (running'.op \in {"play_url", "stream_job"}
           /\ synced_to[running'.pid] \notin {None, running'.pid}) =>
              last'.frames = {} /\ cstate' = cstate
       /\ (last'.op \in {"play_url", "stream_job"} /\ last'.err
           /\ synced_to[last'.pid] \notin {None, last'.pid}) =>
              last'.frames = {} /\ cstate' = cstate
      ]_vars

\* C38: the ring whose mean a heartbeat evaluates holds 4 playpoints, all
\* of the stream job that the queue has at that heartbeat, each taken at
\* most 10 s after the one before it.
C38_RingIsOfOneJobWithoutGap ==
    [][(last'.op = "heartbeat" /\ last'.flag) =>
          LET E == Evaluated(last'.pid)
          IN  /\ Len(E) = 4
              /\ \A i \in 1..4 : E[i].sync_job_id = last'.arg.job
              /\ \A i \in 1..3 :
                     /\ E[i + 1].timestamp >= E[i].timestamp
                     /\ E[i + 1].timestamp - E[i].timestamp <= 10000
      ]_vars

\* C38 witness: a mean was evaluated for follower 2 over four playpoints of
\* stream job 2, the first taken at 5 s and the last, 6 s later, at 11 s.
C38_Witness ==
    /\ last.op = "heartbeat"
    /\ last.pid = 2 /\ synced_to[2] = 1
    /\ last.flag
    /\ last.arg.job = 2
    /\ Len(last.arg.evaluated) = 4
    /\ last.arg.evaluated[1].timestamp = 5000
    /\ last.arg.evaluated[4].timestamp - last.arg.evaluated[1].timestamp > 5000
    /\ now = 11000

\* C39: a heartbeat writes frames only to its own player, only strm 'a' or
\* strm 'p', and only when the synced_to of that player is non-null; the
\* heartbeat of a player whose synced_to is null appends no playpoint,
\* records no backoff and writes no frame; no heartbeat changes the ring of
\* another player, and no other step writes strm 'a' or changes a ring.
C39_CorrectionsToFollowersOnly ==
    [][/\ last'.op = "heartbeat" =>
              LET p == last'.pid
              IN  /\ \A f \in last'.frames : f[1] = p /\ f[2] \in {"a", "p"}
                  /\ last'.frames # {} => synced_to[p] # None
                  /\ synced_to[p] = None =>
                         /\ last'.frames = {}
                         /\ sync_playpoints' = sync_playpoints
                         /\ do_not_resync_before' = do_not_resync_before
                  /\ \A x \in Players \ {p} :
                         sync_playpoints'[x] = sync_playpoints[x]
       /\ last'.op # "heartbeat" =>
              /\ sync_playpoints' = sync_playpoints
              /\ \A f \in last'.frames : f[2] # "a"
      ]_vars

\* C39 witness: leader 1 and its follower 2 are playing and the ring of the
\* follower holds three playpoints; the heartbeat of the leader has left the
\* leader without playpoints and has written nothing.
C39_Witness ==
    /\ last.op = "heartbeat"
    /\ last.pid = 1
    /\ last.arg.outcome = "not_synced"
    /\ synced_to[1] = None /\ synced_to[2] = 1 /\ group_childs[1] = {1, 2}
    /\ cstate[1] = "playing" /\ cstate[2] = "playing"
    /\ sync_playpoints[1] = <<>>
    /\ Len(sync_playpoints[2]) = 3
    /\ last.frames = {}

\* C40: the handler of a BUFFER_READY or of a DECODER_READY event of a
\* player whose synced_to is non-null writes no frame to any session, does
\* not go on to wait for a group and does not ask the queue for a next
\* item; the frames that these handlers write come from handlers of players
\* whose synced_to is null.
C40_ReadinessLeftToLeader ==
    [][/\ (/\ last'.op \in {"buffer_ready", "buffer_ready_sleep",
                            "buffer_ready_unpause"}
           /\ br_pc[last'.pid] = "start"
           /\ synced_to[last'.pid] # None) =>
              /\ last'.op = "buffer_ready"
              /\ last'.frames = {} /\ last'.targets = {}
              /\ br_pc'[last'.pid] = "idle"
       /\ (last'.op = "decoder_ready" /\ synced_to[last'.pid] # None) =>
              /\ last'.frames = {} /\ last'.targets = {}
              /\ ~last'.flag
       /\ (/\ last'.op \in {"buffer_ready", "buffer_ready_sleep",
                            "buffer_ready_unpause", "decoder_ready"}
           /\ last'.frames # {}) =>
              synced_to[last'.pid] = None
      ]_vars

\* C40 witness: follower 2 of leader 1, both with a session, has reported
\* BUFFER_READY while the leader waits for it, and the handler of the
\* follower's event has written nothing.
C40_Witness ==
    /\ last.op = "buffer_ready"
    /\ last.pid = 2
    /\ synced_to[2] = 1 /\ group_childs[1] = {1, 2}
    /\ cstate[2] = "buffer_ready"
    /\ br_pc[1] = "polling"
    /\ br_pc[2] = "idle"
    /\ last.frames = {}

TypeOK ==
    /\ players \subseteq Players
    /\ socket_clients \in [Players -> Nat]
    /\ cstate \in [Players -> SlimPlayerState]
    /\ synced_to \in [Players -> Players \cup {None}]
    /\ group_childs \in [Players -> SUBSET Players]
    /\ br_pc \in [Players -> {"idle", "start", "polling"}]
    /\ count \in [Players -> 0..MAX_POLLS]
    /\ wake \in [Players -> {0, 1}]
    /\ jiffies \in [Players -> Jiffies]
    /\ open_sessions \in [Players -> SUBSET Nat]
    /\ can_sync_with \in [Players -> SUBSET Players]
    /\ now \in 0..MaxNow
    /\ \A p \in Players : Len(sync_playpoints[p]) <= MIN_REQ_PLAYPOINTS
    /\ do_not_resync_before \in [Players -> Nat]
    /\ backoff_recorded \in [Players -> Nat]
    /\ powered \in [Players -> BOOLEAN]
    /\ volume_level \in [Players -> Volumes]
    /\ prev_state \in [Players -> {<<>>} \cup (BOOLEAN \X Volumes)]
    /\ available \in [Players -> BOOLEAN]
    /\ closing \in BOOLEAN
    /\ listening \in BOOLEAN
    /\ disconnected \in [Players -> SUBSET Nat]
====
